---- MODULE Spec2Model ----
(***************************************************************************)
(* Control-plane core of the agent-orchestration platform.                 *)
(*                                                                         *)
(*   SpecCtl   IdempotentBudgetController (orchestrator/budget_controller) *)
(*             request_tokens / commit_usage / release_reservation over    *)
(*             the budget_limits row, the budget_transactions log and the  *)
(*             Redis envelope, result and state-cache keys.                *)
(*   SpecHttp  the /budget/request, /budget/commit and /budget/release     *)
(*             handlers (api/new_endpoints) over the Redis counter, the    *)
(*             reservation keys and the reservations set.                  *)
(*   SpecCB    CircuitBreaker (common/circuit_breaker): call, _on_success, *)
(*             _on_failure, reset_manually, with a discrete clock.         *)
(*   SpecLogin, SpecRbac   login lockout (api/new_endpoints) and           *)
(*             verify_token / require_permission (api/security).           *)
(*   SpecPub, SpecDlq      SafePublisher and DLQWorker                     *)
(*             (messaging/jetstream_setup).                                *)
(*   SpecMigrate           run_migrations (scripts/migrate).               *)
(*   SpecCtlFaults         SpecCtl with statements that raise and calls    *)
(*             that are cancelled.                                         *)
(*   SpecRegistry          CircuitBreakerRegistry: register and reset_all  *)
(*             over two breaker objects and two names.                     *)
(*   SpecCBInTurn, SpecHttpInTurn   the same actions with the calls made   *)
(*             one at a time; SpecCtlFair adds the event loop's fairness.  *)
(*   SpecCtlTtl            request_tokens with the 300 s TTLs of the       *)
(*             envelope and result keys running out.                       *)
(*   SpecCtlAlone          one request_tokens call at a time on a (tenant, *)
(*             project) that is in use.                                    *)
(*   SpecHttpWrites        the request, commit and release handlers called *)
(*             one at a time, keys and set expiring at any moment.         *)
(*   SpecDlqFair           the DLQWorker loop with start() and stop(),     *)
(*             every await returning.                                      *)
(*   SpecAudit             the handlers that write audit rows, called one  *)
(*             at a time: budget commit and release, POST                  *)
(*             /dlq/{id}/resolve over the rows the DLQWorker inserted and  *)
(*             POST /circuit-breakers/reset_all over the registry.         *)
(*                                                                         *)
(* Every await of the source is a suspension point: one action per         *)
(* statement that talks to Redis or to the database.  One (tenant,         *)
(* project, task) is modelled; keys of other tenants never meet.  Each     *)
(* specification moves only its own component's variables.                 *)
(***************************************************************************)
EXTENDS Integers, FiniteSets, Sequences, Bags, TLC

\* ------------------------------------------------------------------ bounds
\* total_limit of the modelled budget_limits row (default_tenant_limit of
\* the controller, a constructor argument).
TotalLimit == 3
\* Largest estimated_tokens / actual_tokens / amount a caller passes.
MaxAmount == 2
\* Number of controller calls issued in one run.
MaxCtlCalls == 2
\* Number of HTTP budget calls issued in one run.
MaxHttpCalls == 3
\* CircuitBreaker configuration and the number of call()s and clock ticks.
FailureThreshold == 2
RecoveryTimeout == 2
HalfOpenMaxCalls == 2
MaxBreakerCalls == 6
MaxTime == 6
\* Number of call()s on all breaker objects of the registry runs.
MaxRegistryCalls == 5
\* Latest time.time() in the runs of the registry.
MaxRegistryTime == 3
\* Number of SafePublisher.publish calls issued in one run.
MaxPublishCalls == 2
\* Messages on the DLQ stream and deliveries of messages to the worker.
MaxDlqMessages == 2
MaxDeliveries == 3
\* Messages on the DLQ stream in the runs that follow the worker's loop.
MaxLoopMessages == 2
\* Number of DLQWorker.start calls issued in one run.
MaxStartCalls == 2
\* Number of files in the migrations directory.
MaxFiles == 3
\* Login lockout: LOGIN_MAX_ATTEMPTS and LOGIN_LOCKOUT_TTL (both read from
\* the environment) in attempts and ticks, and the number of login calls.
LoginMaxAttempts == 2
LockoutWindow == 2
MaxLoginCalls == 3

\* -------------------------------------------------------- program constants
\* budget_request / budget_state: total_limit when budget_limits has no row.
DefaultHttpLimit == 100000

VARIABLES
    \* ---- ledger and Redis keys of the controller
    budget_limits,        \* table budget_limits: set of rows (at most one: one key)
    budget_transactions,  \* table budget_transactions: bag of rows
    redis_req,            \* request ids whose key budget:req:..:{id} holds "processing"
    redis_ttl,            \* what the TTLs of the two keys of a request id imply
    redis_result,         \* request id -> value of budget:req:..:{id}:result ({} absent)
    redis_state,          \* value of budget:state:{tenant}:{project} ({} absent)
    ctl,                  \* call -> frame of a controller coroutine
    ctl_started,          \* number of controller calls issued so far
    \* ---- Redis keys of the HTTP handlers
    kv_budget,            \* value of budget:{tenant}:{project} ({} absent)
    kv_reservation,       \* reservation id -> value of reservation:..:{id} ({} absent)
    kv_reservations_set,  \* members of reservations:{tenant}:{project}
    reservations_ttl,     \* what the TTLs of the set and of the reservation keys imply
    audit_log,            \* table audit_log: bag of rows
    http,                 \* call -> frame of a handler coroutine
    http_started,         \* number of handler calls issued so far
    \* ---- CircuitBreaker fields
    state, failure_count, success_count, last_failure_time, opened_at,
    half_open_calls, total_calls, total_failures, total_successes,
    now,                  \* time.time()
    in_flight,            \* admission state -> wrapped functions still running
    last_call,            \* how the latest call() left the admission block
    last_report,          \* the latest _on_success / _on_failure and the state it met
    streak,               \* failures reported since the latest reported success
    breakers,             \* the other CircuitBreaker objects: object -> fields
    registry,             \* circuit_breaker_registry._breakers: name -> object
    \* ---- login lockout
    login_username,       \* username_lower of the modelled lock key
    login_counter,        \* value and TTL of login:attempts:{user}:{ip} ({} absent)
    login,                \* call -> frame of a login coroutine
    login_started,        \* number of login calls issued so far
    \* ---- RBAC
    rbac,                 \* one request: bearer token, principal, wrapper outcome
    \* ---- SafePublisher and its two transports
    publish,              \* call -> frame of a SafePublisher.publish coroutine
    publish_started,      \* number of publish calls issued so far
    js_stream,            \* messages the JetStream streams stored, in order
    nc_sent,              \* publishes attempted on the core NATS connection, in order
    \* ---- DLQWorker
    dlq_stream,           \* stream DLQ: sequence -> message, deliveries, acked, outstanding
    dlq_messages,         \* table dlq_messages: bag of rows
    dlq_worker,           \* call -> frame of a DLQWorker.start coroutine
    running,              \* DLQWorker.running
    \* ---- migration runner
    sql_files,            \* the *.sql files of migrations/, sorted by name
    schema_migrations,    \* table schema_migrations: set of rows, key version
    migrate               \* frame of run_migrations

ctlVars == <<budget_limits, budget_transactions, redis_req, redis_ttl, redis_result,
             redis_state, ctl, ctl_started>>

httpVars == <<kv_budget, kv_reservation, kv_reservations_set, reservations_ttl,
              audit_log, http, http_started>>

cbVars == <<state, failure_count, success_count, last_failure_time, opened_at,
            half_open_calls, total_calls, total_failures, total_successes,
            now, in_flight, last_call, last_report, streak, breakers, registry>>

authVars == <<login_username, login_counter, login, login_started, rbac>>

pubVars == <<publish, publish_started, js_stream, nc_sent>>

dlqVars == <<dlq_stream, dlq_messages, dlq_worker, running>>

migVars == <<sql_files, schema_migrations, migrate>>

opsVars == <<pubVars, dlqVars, migVars>>

vars == <<ctlVars, httpVars, cbVars, authVars, opsVars>>

CtlCalls == 1..MaxCtlCalls
RequestIds == {"r1", "r2"}
Amounts == 1..MaxAmount

\* BudgetLimit rows as the SELECT of _get_budget returns them.
BudgetLimit(total, usage, res) ==
    [total_limit |-> total, current_usage |-> usage, reserved |-> res,
     available |-> total - usage - res]

LimitRow(total, usage, res) ==
    [total_limit |-> total, current_usage |-> usage, reserved |-> res]

\* BudgetDecision; reason is a tuple so that the insufficient_budget text
\* keeps the two numbers it is formatted from.
BudgetDecision(approved, reason, allocated, rid, ts) ==
    [approved |-> approved, reason |-> reason, allocated_tokens |-> allocated,
     request_id |-> rid, timestamp |-> ts]

DuplicateInProgress(rid) ==
    BudgetDecision(FALSE, <<"duplicate_request_in_progress">>, 0, rid, "None")

InsufficientBudget(rid, available, estimated) ==
    BudgetDecision(FALSE, <<"insufficient_budget", available, estimated>>, 0,
                   rid, "utcnow")

ReservationFailed(rid) ==
    BudgetDecision(FALSE, <<"reservation_failed">>, 0, rid, "utcnow")

Approved(rid, estimated) ==
    BudgetDecision(TRUE, <<"approved">>, estimated, rid, "utcnow")

TxRow(type, rid, amount) ==
    [type |-> type, request_id |-> rid, amount |-> amount]

IdleFrame ==
    [op |-> "idle", pc |-> "idle", request_id |-> "r1", amount |-> 0,
     was_new |-> FALSE, late |-> FALSE, held |-> FALSE, budget |-> {},
     decision |-> {}]

\* Both keys of a request id are written with a TTL of 300 s, so the one
\* written first expires first.  result_first: the ids whose result key is
\* older than their envelope (the envelope was won while an earlier result
\* was still there); lapsed: the ids of which a key has expired.
NoTtl == [result_first |-> {}, lapsed |-> {}]

InitCtlKeys ==
    /\ budget_transactions = EmptyBag
    /\ redis_req = {}
    /\ redis_ttl = NoTtl
    /\ redis_result = [r \in RequestIds |-> {}]
    /\ redis_state = {}
    /\ ctl = [c \in CtlCalls |-> IdleFrame]
    /\ ctl_started = 0

InitCtl ==
    /\ budget_limits = {}
    /\ InitCtlKeys

Goto(c, label) == ctl' = [ctl EXCEPT ![c].pc = label]

\* The coroutine ends (return or raise): its arguments go out of scope.
Leave(c, label) == ctl' = [ctl EXCEPT ![c].pc = label, ![c].amount = 0]

\* ---- request_tokens ------------------------------------------------------

\* Request ids are opaque strings (uuid4 when the caller gives none): a run
\* names r1 before it names any other id.
NamedInOrder(rid) ==
    \/ rid = "r1"
    \/ \E c \in CtlCalls : ctl[c].op # "idle" /\ ctl[c].request_id = "r1"

\* A caller issues request_tokens(estimated_tokens = n, request_id = rid).
\* late records whether the result key was already written at that moment.
StartRequest(c, rid, n) ==
    /\ ctl[c].pc = "idle"
    /\ c = ctl_started + 1
    /\ NamedInOrder(rid)
    /\ ctl_started' = c
    /\ ctl' = [ctl EXCEPT ![c] = [IdleFrame EXCEPT !.op = "request_tokens",
                  !.pc = "setnx", !.request_id = rid, !.amount = n,
                  !.late = (redis_result[rid] # {})]]
    /\ UNCHANGED <<budget_limits, budget_transactions, redis_req, redis_result,
                   redis_state,
                   redis_ttl>>
    /\ UNCHANGED <<httpVars, cbVars, authVars, opsVars>>

\* redis.set(req_key, "processing", nx=True, ex=300): the reply.
SetNxMutant(rid) == TRUE
SetNx(rid) == rid \notin redis_req

RequestSetNx(c) ==
    /\ ctl[c].pc = "setnx"
    /\ LET rid == ctl[c].request_id
           won == SetNx(rid) IN
        /\ redis_req' = redis_req \cup {rid}
        /\ redis_ttl' = IF won /\ redis_result[rid] # {}
                        THEN [redis_ttl EXCEPT !.result_first = @ \cup {rid}]
                        ELSE redis_ttl
        /\ ctl' = [ctl EXCEPT ![c].was_new = won,
                              ![c].pc = IF won THEN "get_cache" ELSE "get_result"]
    /\ UNCHANGED <<budget_limits, budget_transactions, redis_result,
                   redis_state, ctl_started>>
    /\ UNCHANGED <<httpVars, cbVars, authVars, opsVars>>

\* The decision a call that lost the SETNX returns.
CachedOrDuplicate(rid) ==
    IF redis_result[rid] # {}
    THEN CHOOSE d \in redis_result[rid] : TRUE
    ELSE DuplicateInProgress(rid)

RequestGetResult(c) ==
    /\ ctl[c].pc = "get_result"
    /\ ctl' = [ctl EXCEPT ![c].decision = {CachedOrDuplicate(ctl[c].request_id)},
                          ![c].amount = 0, ![c].pc = "returned"]
    /\ UNCHANGED <<budget_limits, budget_transactions, redis_req, redis_result,
                   redis_state, ctl_started,
                   redis_ttl>>
    /\ UNCHANGED <<httpVars, cbVars, authVars, opsVars>>

\* _process_budget_request after _get_budget returned b: the availability
\* check runs without an await in between.  budget is not read again, so
\* the frame drops it.
AfterGetBudget(c, b) ==
    IF b.available < ctl[c].amount
    THEN [ctl EXCEPT ![c].budget = {},
                     ![c].decision = {InsufficientBudget(ctl[c].request_id,
                                          b.available, ctl[c].amount)},
                     ![c].pc = "setex_result"]
    ELSE [ctl EXCEPT ![c].budget = {}, ![c].pc = "reserve_update"]

\* _get_budget: redis.get(cache_key)
RequestGetCache(c) ==
    /\ ctl[c].pc = "get_cache"
    /\ IF redis_state # {}
       THEN ctl' = AfterGetBudget(c, CHOOSE b \in redis_state : TRUE)
       ELSE Goto(c, "db_select")
    /\ UNCHANGED <<budget_limits, budget_transactions, redis_req, redis_result,
                   redis_state, ctl_started,
                   redis_ttl>>
    /\ UNCHANGED <<httpVars, cbVars, authVars, opsVars>>

\* _get_budget: SELECT ... FROM budget_limits
RequestDbSelect(c) ==
    /\ ctl[c].pc = "db_select"
    /\ IF budget_limits # {}
       THEN LET row == CHOOSE r \in budget_limits : TRUE IN
            ctl' = [ctl EXCEPT ![c].budget =
                        {BudgetLimit(row.total_limit, row.current_usage, row.reserved)},
                    ![c].pc = "cache_setex"]
       ELSE Goto(c, "db_insert")
    /\ UNCHANGED <<budget_limits, budget_transactions, redis_req, redis_result,
                   redis_state, ctl_started,
                   redis_ttl>>
    /\ UNCHANGED <<httpVars, cbVars, authVars, opsVars>>

\* _get_budget: INSERT INTO budget_limits ... (total_limit, 0, 0).  The
\* primary key (tenant_id, project_id) rejects a second row: the statement
\* raises and request_tokens goes to its except branch.
RequestDbInsert(c) ==
    /\ ctl[c].pc = "db_insert"
    /\ IF budget_limits = {}
       THEN /\ budget_limits' = {LimitRow(TotalLimit, 0, 0)}
            /\ ctl' = [ctl EXCEPT ![c].budget = {BudgetLimit(TotalLimit, 0, 0)},
                                  ![c].pc = "cache_setex"]
       ELSE /\ Goto(c, "except_delete")
            /\ UNCHANGED budget_limits
    /\ UNCHANGED <<budget_transactions, redis_req, redis_result, redis_state,
                   ctl_started,
                   redis_ttl>>
    /\ UNCHANGED <<httpVars, cbVars, authVars, opsVars>>

\* _get_budget: redis.setex(cache_key, 10, budget)
RequestCacheSetex(c) ==
    /\ ctl[c].pc = "cache_setex"
    /\ redis_state' = ctl[c].budget
    /\ ctl' = AfterGetBudget(c, CHOOSE b \in ctl[c].budget : TRUE)
    /\ UNCHANGED <<budget_limits, budget_transactions, redis_req, redis_result,
                   ctl_started,
                   redis_ttl>>
    /\ UNCHANGED <<httpVars, cbVars, authVars, opsVars>>

\* The WHERE clause of the UPDATE of _reserve_tokens.
CanReserveMutant(row, n) == TRUE
CanReserveStrictMutant(row, n) == row.total_limit - row.current_usage - row.reserved > n
CanReserve(row, n) == row.total_limit - row.current_usage - row.reserved >= n

\* _reserve_tokens: UPDATE budget_limits SET reserved = reserved + n WHERE ...
RequestReserveUpdate(c) ==
    /\ ctl[c].pc = "reserve_update"
    /\ LET n == ctl[c].amount
           hit == {r \in budget_limits : CanReserve(r, n)} IN
        IF hit # {}
        THEN /\ budget_limits' =
                   {IF CanReserve(r, n) THEN [r EXCEPT !.reserved = @ + n] ELSE r
                      : r \in budget_limits}
             /\ Goto(c, "reserve_insert")
        ELSE /\ ctl' = [ctl EXCEPT ![c].decision =
                            {ReservationFailed(ctl[c].request_id)},
                        ![c].pc = "setex_result"]
             /\ UNCHANGED budget_limits
    /\ UNCHANGED <<budget_transactions, redis_req, redis_result, redis_state,
                   ctl_started,
                   redis_ttl>>
    /\ UNCHANGED <<httpVars, cbVars, authVars, opsVars>>

\* _reserve_tokens: INSERT INTO budget_transactions (... 'reserve' ...)
RequestReserveInsert(c) ==
    /\ ctl[c].pc = "reserve_insert"
    /\ budget_transactions' = budget_transactions (+)
           SetToBag({TxRow("reserve", ctl[c].request_id, ctl[c].amount)})
    /\ Goto(c, "reserve_invalidate")
    /\ UNCHANGED <<budget_limits, redis_req, redis_result, redis_state,
                   ctl_started,
                   redis_ttl>>
    /\ UNCHANGED <<httpVars, cbVars, authVars, opsVars>>

\* _reserve_tokens: redis.delete(cache_key); then the approved decision.
RequestReserveInvalidate(c) ==
    /\ ctl[c].pc = "reserve_invalidate"
    /\ redis_state' = {}
    /\ ctl' = [ctl EXCEPT ![c].decision =
                   {Approved(ctl[c].request_id, ctl[c].amount)},
               ![c].pc = "setex_result"]
    /\ UNCHANGED <<budget_limits, budget_transactions, redis_req, redis_result,
                   ctl_started,
                   redis_ttl>>
    /\ UNCHANGED <<httpVars, cbVars, authVars, opsVars>>

\* request_tokens: redis.setex(req_key:result, 300, decision); return decision
RequestSetexResult(c) ==
    /\ ctl[c].pc = "setex_result"
    /\ redis_result' = [redis_result EXCEPT ![ctl[c].request_id] = ctl[c].decision]
    /\ redis_ttl' = [redis_ttl EXCEPT !.result_first = @ \ {ctl[c].request_id}]
    /\ Leave(c, "returned")
    /\ UNCHANGED <<budget_limits, budget_transactions, redis_req, redis_state,
                   ctl_started>>
    /\ UNCHANGED <<httpVars, cbVars, authVars, opsVars>>

\* request_tokens: except branch, redis.delete(req_key); raise.  The caller
\* gets the exception and still has the arguments for a retry.
RequestExceptDelete(c) ==
    /\ ctl[c].pc = "except_delete"
    /\ redis_req' = redis_req \ {ctl[c].request_id}
    /\ redis_ttl' = [redis_ttl EXCEPT !.result_first = @ \ {ctl[c].request_id}]
    /\ Goto(c, "raised")
    /\ UNCHANGED <<budget_limits, budget_transactions, redis_result, redis_state,
                   ctl_started>>
    /\ UNCHANGED <<httpVars, cbVars, authVars, opsVars>>

\* ---- commit_usage --------------------------------------------------------

\* The caller holds the reservation of request id rid: request_tokens stored
\* and returned its approved decision, and no commit_usage or
\* release_reservation was issued for it yet.  Callers are free to call
\* without it; the frame records it in held.
HoldsReservation(rid) ==
    /\ \E d \in redis_result[rid] : d.approved
    /\ \A c \in CtlCalls :
          ctl[c].op \in {"commit_usage", "release_reservation"}
          => ctl[c].request_id # rid

StartCommit(c, rid, n) ==
    /\ ctl[c].pc = "idle"
    /\ c = ctl_started + 1
    /\ NamedInOrder(rid)
    /\ ctl_started' = c
    /\ ctl' = [ctl EXCEPT ![c] = [IdleFrame EXCEPT !.op = "commit_usage",
                  !.pc = "commit_update", !.request_id = rid, !.amount = n,
                  !.held = HoldsReservation(rid)]]
    /\ UNCHANGED <<budget_limits, budget_transactions, redis_req, redis_result,
                   redis_state,
                   redis_ttl>>
    /\ UNCHANGED <<httpVars, cbVars, authVars, opsVars>>

\* The SET clause of the UPDATE of commit_usage.
CommitRow(row, actual) ==
    [row EXCEPT !.current_usage = @ + actual, !.reserved = @ - actual]

CommitUpdate(c) ==
    /\ ctl[c].pc = "commit_update"
    /\ budget_limits' = {CommitRow(r, ctl[c].amount) : r \in budget_limits}
    /\ Goto(c, "commit_insert")
    /\ UNCHANGED <<budget_transactions, redis_req, redis_result, redis_state,
                   ctl_started,
                   redis_ttl>>
    /\ UNCHANGED <<httpVars, cbVars, authVars, opsVars>>

CommitInsert(c) ==
    /\ ctl[c].pc = "commit_insert"
    /\ budget_transactions' = budget_transactions (+)
           SetToBag({TxRow("commit", ctl[c].request_id, ctl[c].amount)})
    /\ Goto(c, "commit_invalidate")
    /\ UNCHANGED <<budget_limits, redis_req, redis_result, redis_state,
                   ctl_started,
                   redis_ttl>>
    /\ UNCHANGED <<httpVars, cbVars, authVars, opsVars>>

CommitInvalidate(c) ==
    /\ ctl[c].pc = "commit_invalidate"
    /\ redis_state' = {}
    /\ Leave(c, "returned")
    /\ UNCHANGED <<budget_limits, budget_transactions, redis_req, redis_result,
                   ctl_started,
                   redis_ttl>>
    /\ UNCHANGED <<httpVars, cbVars, authVars, opsVars>>

\* ---- release_reservation -------------------------------------------------

StartRelease(c, rid, n) ==
    /\ ctl[c].pc = "idle"
    /\ c = ctl_started + 1
    /\ NamedInOrder(rid)
    /\ ctl_started' = c
    /\ ctl' = [ctl EXCEPT ![c] = [IdleFrame EXCEPT !.op = "release_reservation",
                  !.pc = "release_update", !.request_id = rid, !.amount = n,
                  !.held = HoldsReservation(rid)]]
    /\ UNCHANGED <<budget_limits, budget_transactions, redis_req, redis_result,
                   redis_state,
                   redis_ttl>>
    /\ UNCHANGED <<httpVars, cbVars, authVars, opsVars>>

\* The SET clause of the UPDATE of release_reservation.
ReleaseRow(row, amount) == [row EXCEPT !.reserved = @ - amount]

ReleaseUpdate(c) ==
    /\ ctl[c].pc = "release_update"
    /\ budget_limits' = {ReleaseRow(r, ctl[c].amount) : r \in budget_limits}
    /\ Goto(c, "release_insert")
    /\ UNCHANGED <<budget_transactions, redis_req, redis_result, redis_state,
                   ctl_started,
                   redis_ttl>>
    /\ UNCHANGED <<httpVars, cbVars, authVars, opsVars>>

ReleaseInsert(c) ==
    /\ ctl[c].pc = "release_insert"
    /\ budget_transactions' = budget_transactions (+)
           SetToBag({TxRow("release", ctl[c].request_id, ctl[c].amount)})
    /\ Goto(c, "release_invalidate")
    /\ UNCHANGED <<budget_limits, redis_req, redis_result, redis_state,
                   ctl_started,
                   redis_ttl>>
    /\ UNCHANGED <<httpVars, cbVars, authVars, opsVars>>

ReleaseInvalidate(c) ==
    /\ ctl[c].pc = "release_invalidate"
    /\ redis_state' = {}
    /\ Leave(c, "returned")
    /\ UNCHANGED <<budget_limits, budget_transactions, redis_req, redis_result,
                   ctl_started,
                   redis_ttl>>
    /\ UNCHANGED <<httpVars, cbVars, authVars, opsVars>>

\* The 10 s TTL of the state cache key runs out.
StateCacheExpires ==
    /\ redis_state # {}
    /\ redis_state' = {}
    /\ UNCHANGED <<budget_limits, budget_transactions, redis_req, redis_result,
                   ctl, ctl_started,
                   redis_ttl>>
    /\ UNCHANGED <<httpVars, cbVars, authVars, opsVars>>

\* The 300 s TTL of the envelope budget:req:..:{id} runs out; a result key
\* that is older has run out before.
EnvelopeExpires(rid) ==
    /\ rid \in redis_req
    /\ rid \notin redis_ttl.result_first
    /\ redis_req' = redis_req \ {rid}
    /\ redis_ttl' = [redis_ttl EXCEPT !.lapsed = @ \cup {rid}]
    /\ UNCHANGED <<budget_limits, budget_transactions, redis_result,
                   redis_state, ctl, ctl_started>>
    /\ UNCHANGED <<httpVars, cbVars, authVars, opsVars>>

\* The 300 s TTL of the result key budget:req:..:{id}:result runs out; an
\* envelope that is older has run out before.
ResultExpires(rid) ==
    /\ redis_result[rid] # {}
    /\ rid \in redis_req => rid \in redis_ttl.result_first
    /\ redis_result' = [redis_result EXCEPT ![rid] = {}]
    /\ redis_ttl' = [result_first |-> redis_ttl.result_first \ {rid},
                     lapsed |-> redis_ttl.lapsed \cup {rid}]
    /\ UNCHANGED <<budget_limits, budget_transactions, redis_req,
                   redis_state, ctl, ctl_started>>
    /\ UNCHANGED <<httpVars, cbVars, authVars, opsVars>>

NextCtl ==
    \/ \E c \in CtlCalls, rid \in RequestIds, n \in Amounts : StartRequest(c, rid, n)
    \/ \E c \in CtlCalls, rid \in RequestIds, n \in Amounts : StartCommit(c, rid, n)
    \/ \E c \in CtlCalls, rid \in RequestIds, n \in Amounts : StartRelease(c, rid, n)
    \/ \E c \in CtlCalls : RequestSetNx(c)
    \/ \E c \in CtlCalls : RequestGetResult(c)
    \/ \E c \in CtlCalls : RequestGetCache(c)
    \/ \E c \in CtlCalls : RequestDbSelect(c)
    \/ \E c \in CtlCalls : RequestDbInsert(c)
    \/ \E c \in CtlCalls : RequestCacheSetex(c)
    \/ \E c \in CtlCalls : RequestReserveUpdate(c)
    \/ \E c \in CtlCalls : RequestReserveInsert(c)
    \/ \E c \in CtlCalls : RequestReserveInvalidate(c)
    \/ \E c \in CtlCalls : RequestSetexResult(c)
    \/ \E c \in CtlCalls : RequestExceptDelete(c)
    \/ \E c \in CtlCalls : CommitUpdate(c)
    \/ \E c \in CtlCalls : CommitInsert(c)
    \/ \E c \in CtlCalls : CommitInvalidate(c)
    \/ \E c \in CtlCalls : ReleaseUpdate(c)
    \/ \E c \in CtlCalls : ReleaseInsert(c)
    \/ \E c \in CtlCalls : ReleaseInvalidate(c)
    \/ StateCacheExpires

\* request_tokens calls that may take longer than the TTL of the envelope,
\* and callers that come back after it: the keys of a request id run out.
NextCtlTtl ==
    \/ \E c \in CtlCalls, rid \in RequestIds, n \in {1, MaxAmount} :
          StartRequest(c, rid, n)
    \/ \E c \in CtlCalls : RequestSetNx(c)
    \/ \E c \in CtlCalls : RequestGetResult(c)
    \/ \E c \in CtlCalls : RequestGetCache(c)
    \/ \E c \in CtlCalls : RequestDbSelect(c)
    \/ \E c \in CtlCalls : RequestDbInsert(c)
    \/ \E c \in CtlCalls : RequestCacheSetex(c)
    \/ \E c \in CtlCalls : RequestReserveUpdate(c)
    \/ \E c \in CtlCalls : RequestReserveInsert(c)
    \/ \E c \in CtlCalls : RequestReserveInvalidate(c)
    \/ \E c \in CtlCalls : RequestSetexResult(c)
    \/ \E c \in CtlCalls : RequestExceptDelete(c)
    \/ StateCacheExpires
    \/ \E rid \in RequestIds : EnvelopeExpires(rid)
    \/ \E rid \in RequestIds : ResultExpires(rid)

\* One step of controller call c: the coroutine resumes from its await.
CtlStep(c) ==
    \/ RequestSetNx(c) \/ RequestGetResult(c) \/ RequestGetCache(c)
    \/ RequestDbSelect(c) \/ RequestDbInsert(c) \/ RequestCacheSetex(c)
    \/ RequestReserveUpdate(c) \/ RequestReserveInsert(c)
    \/ RequestReserveInvalidate(c) \/ RequestSetexResult(c)
    \/ RequestExceptDelete(c)
    \/ CommitUpdate(c) \/ CommitInsert(c) \/ CommitInvalidate(c)
    \/ ReleaseUpdate(c) \/ ReleaseInsert(c) \/ ReleaseInvalidate(c)

\* The event loop resumes every coroutine whose Redis or database reply has
\* arrived, and Redis expires a key whose TTL ran out.  Nothing obliges a
\* client to issue a call, and the controller runs no task of its own.
CtlFairness ==
    /\ \A c \in CtlCalls : WF_vars(CtlStep(c))
    /\ WF_vars(StateCacheExpires)

\* ---- failures and cancellation -------------------------------------------

\* The statements of request_tokens inside its try block.
TryPcs ==
    {"get_cache", "db_select", "db_insert", "cache_setex", "reserve_update",
     "reserve_insert", "reserve_invalidate", "setex_result"}

\* The awaits of request_tokens outside its try block: redis.set(nx) and
\* redis.get(result) before it, redis.delete(req_key) in its except clause.
OutsideTryPcs == {"setnx", "get_result", "except_delete"}

\* The Redis or database statement a request_tokens call waits for raises
\* (connection lost, statement error) without having taken effect: control
\* goes to the except clause.  No statement of the controller runs inside a
\* database transaction, so what earlier statements wrote stays written.
\* A statement outside the try block (the SET nx, the GET of the result key,
\* the DELETE of the except clause itself) has no handler: the exception
\* leaves the coroutine, and after a failed DELETE the envelope stays.
RequestRaises(c) ==
    /\ ctl[c].op = "request_tokens"
    /\ ctl[c].pc \in TryPcs \cup OutsideTryPcs
    /\ ctl' = [ctl EXCEPT ![c].pc = IF ctl[c].pc \in TryPcs
                                    THEN "except_delete" ELSE "raised",
                          ![c].budget = {}, ![c].decision = {}]
    /\ UNCHANGED <<budget_limits, budget_transactions, redis_req, redis_result,
                   redis_state, ctl_started,
                   redis_ttl>>
    /\ UNCHANGED <<httpVars, cbVars, authVars, opsVars>>

\* The same in commit_usage and release_reservation, which have no except
\* clause: the exception leaves the coroutine.
SettleRaises(c) ==
    /\ ctl[c].pc \in {"commit_update", "commit_insert", "commit_invalidate",
                      "release_update", "release_insert", "release_invalidate"}
    /\ Leave(c, "raised")
    /\ UNCHANGED <<budget_limits, budget_transactions, redis_req, redis_result,
                   redis_state, ctl_started,
                   redis_ttl>>
    /\ UNCHANGED <<httpVars, cbVars, authVars, opsVars>>

\* The task of a call is cancelled while it waits at an await: CancelledError
\* is not an Exception, so the except clause of request_tokens does not run.
CtlCancelled(c) ==
    /\ ctl[c].pc \notin {"idle", "returned", "raised", "cancelled"}
    /\ ctl' = [ctl EXCEPT ![c].pc = "cancelled", ![c].amount = 0,
                          ![c].budget = {}, ![c].decision = {}]
    /\ UNCHANGED <<budget_limits, budget_transactions, redis_req, redis_result,
                   redis_state, ctl_started,
                   redis_ttl>>
    /\ UNCHANGED <<httpVars, cbVars, authVars, opsVars>>

NextCtlFaults ==
    \/ NextCtl
    \/ \E c \in CtlCalls : RequestRaises(c)
    \/ \E c \in CtlCalls : SettleRaises(c)
    \/ \E c \in CtlCalls : CtlCancelled(c)

\* ------------------------------------------------------------ HTTP handlers

HttpCalls == 1..MaxHttpCalls
\* uuid4 reservation ids: the id a budget_request creates is its call number.
ReservationIds == HttpCalls

IdleHandler ==
    [op |-> "idle", pc |-> "idle", reservation_id |-> 0, amount |-> 0,
     total_limit |-> 0, used |-> 0, ids |-> {}, reserved |-> 0, status |-> 0,
     available |-> 0, counted |-> {}, message_id |-> 0, note |-> "",
     reset_count |-> 0, breakers |-> {}]

\* The reservations set and every reservation key get the same TTL of 3600 s,
\* so the order of their expiries is the order in which the TTLs were set:
\* has_ttl says that an EXPIRE has given the present set a TTL, younger holds
\* the ids of the live reservation keys written after that EXPIRE.
NoSetTtl == [has_ttl |-> FALSE, younger |-> {}]

\* The TTL of a set goes with the set: SREM of the last member deletes the key.
AfterSrem(members) ==
    [reservations_ttl EXCEPT !.has_ttl = @ /\ members # {}]

InitHttp ==
    /\ kv_budget = {}
    /\ kv_reservation = [i \in ReservationIds |-> {}]
    /\ kv_reservations_set = {}
    /\ reservations_ttl = NoSetTtl
    /\ audit_log = EmptyBag
    /\ http = [c \in HttpCalls |-> IdleHandler]
    /\ http_started = 0

HGoto(c, label) == http' = [http EXCEPT ![c].pc = label]

\* int(await redis.get(budget_key) or "0")
UsedCounter == IF kv_budget = {} THEN 0 ELSE CHOOSE n \in kv_budget : TRUE

\* tokens of the value "{estimated_tokens}:{task_id}" of a reservation key
TokensOf(i) == CHOOSE n \in kv_reservation[i] : TRUE

AuditRow(action, resource_id) == [action |-> action, resource_id |-> resource_id]

\* ---- budget_request ------------------------------------------------------

StartBudgetRequest(c, n) ==
    /\ http[c].pc = "idle"
    /\ c = http_started + 1
    /\ http_started' = c
    /\ http' = [http EXCEPT ![c] = [IdleHandler EXCEPT !.op = "budget_request",
                   !.pc = "select_limit", !.reservation_id = c, !.amount = n]]
    /\ UNCHANGED <<kv_budget, kv_reservation, kv_reservations_set, reservations_ttl,
                   audit_log>>
    /\ UNCHANGED <<ctlVars, cbVars, authVars, opsVars>>

\* SELECT total_limit FROM budget_limits ...; 100000 when there is no row
SelectedLimit ==
    IF budget_limits = {} THEN DefaultHttpLimit
    ELSE (CHOOSE r \in budget_limits : TRUE).total_limit

RequestSelectLimit(c) ==
    /\ http[c].op = "budget_request"
    /\ http[c].pc = "select_limit"
    /\ http' = [http EXCEPT ![c].total_limit = SelectedLimit, ![c].pc = "get_used"]
    /\ UNCHANGED <<kv_budget, kv_reservation, kv_reservations_set, reservations_ttl,
                   audit_log, http_started>>
    /\ UNCHANGED <<ctlVars, cbVars, authVars, opsVars>>

RequestGetUsed(c) ==
    /\ http[c].op = "budget_request"
    /\ http[c].pc = "get_used"
    /\ http' = [http EXCEPT ![c].used = UsedCounter, ![c].pc = "smembers"]
    /\ UNCHANGED <<kv_budget, kv_reservation, kv_reservations_set, reservations_ttl,
                   audit_log, http_started>>
    /\ UNCHANGED <<ctlVars, cbVars, authVars, opsVars>>

\* The branch after the loop over reservation_ids (no await in between):
\* approve when available >= estimated_tokens, else 409 with the detail
\* "Available {available}, Requested {estimated_tokens}".  total_limit, used
\* and reserved are not read again, so the frame drops them.
Decide(f) ==
    LET available == f.total_limit - f.used - f.reserved
        g == [f EXCEPT !.total_limit = 0, !.used = 0, !.reserved = 0]
    IN  IF available >= f.amount
        THEN [g EXCEPT !.pc = "setex"]
        ELSE [g EXCEPT !.pc = "returned", !.status = 409, !.available = available]

\* reservation_ids = await redis.smembers(reservations_set); reserved = 0
RequestSmembers(c) ==
    /\ http[c].op = "budget_request"
    /\ http[c].pc = "smembers"
    /\ LET f == [http[c] EXCEPT !.ids = kv_reservations_set, !.reserved = 0] IN
        http' = [http EXCEPT ![c] =
                    IF f.ids = {} THEN Decide(f) ELSE [f EXCEPT !.pc = "get_reservation"]]
    /\ UNCHANGED <<kv_budget, kv_reservation, kv_reservations_set, reservations_ttl,
                   audit_log, http_started>>
    /\ UNCHANGED <<ctlVars, cbVars, authVars, opsVars>>

\* One turn of the loop: res_data = await redis.get(res_key).  A Python set
\* is iterated in no particular order.
RequestGetReservation(c, i) ==
    /\ http[c].op = "budget_request"
    /\ http[c].pc = "get_reservation"
    /\ i \in http[c].ids
    /\ LET f == [http[c] EXCEPT !.ids = @ \ {i},
                     !.reserved = IF kv_reservation[i] # {} THEN @ + TokensOf(i) ELSE @] IN
        http' = [http EXCEPT ![c] = IF f.ids = {} THEN Decide(f) ELSE f]
    /\ UNCHANGED <<kv_budget, kv_reservation, kv_reservations_set, reservations_ttl,
                   audit_log, http_started>>
    /\ UNCHANGED <<ctlVars, cbVars, authVars, opsVars>>

\* redis.setex(reservation_key, 3600, "{estimated_tokens}:{task_id}")
RequestSetex(c) ==
    /\ http[c].op = "budget_request"
    /\ http[c].pc = "setex"
    /\ kv_reservation' = [kv_reservation EXCEPT ![http[c].reservation_id] = {http[c].amount}]
    /\ reservations_ttl' = [reservations_ttl EXCEPT
                               !.younger = @ \cup {http[c].reservation_id}]
    /\ HGoto(c, "sadd")
    /\ UNCHANGED <<kv_budget, kv_reservations_set, audit_log, http_started>>
    /\ UNCHANGED <<ctlVars, cbVars, authVars, opsVars>>

RequestSadd(c) ==
    /\ http[c].op = "budget_request"
    /\ http[c].pc = "sadd"
    /\ kv_reservations_set' = kv_reservations_set \cup {http[c].reservation_id}
    /\ HGoto(c, "expire")
    /\ UNCHANGED <<kv_budget, kv_reservation, reservations_ttl, audit_log,
                   http_started>>
    /\ UNCHANGED <<ctlVars, cbVars, authVars, opsVars>>

\* redis.expire(reservations_set, 3600); return BudgetResponse(approved=True, ...)
RequestExpire(c) ==
    /\ http[c].op = "budget_request"
    /\ http[c].pc = "expire"
    /\ reservations_ttl' = [has_ttl |-> kv_reservations_set # {}, younger |-> {}]
    /\ http' = [http EXCEPT ![c].pc = "returned", ![c].status = 200]
    /\ UNCHANGED <<kv_budget, kv_reservation, kv_reservations_set, audit_log,
                   http_started>>
    /\ UNCHANGED <<ctlVars, cbVars, authVars, opsVars>>

\* ---- budget_commit -------------------------------------------------------

\* The reservation ids a client can name in call c: an id a finished
\* budget_request handed out, or an id no budget_request ever creates (the
\* number of a call that is not a budget_request, c itself included).  A uuid4
\* that is still inside a running budget_request cannot be named.
Nameable(c, i) ==
    \/ i = c
    \/ http[i].op \in {"budget_commit", "budget_release"}
    \/ http[i].op = "budget_request" /\ http[i].pc = "returned"

StartBudgetCommit(c, i, n) ==
    /\ http[c].pc = "idle"
    /\ c = http_started + 1
    /\ Nameable(c, i)
    /\ http_started' = c
    /\ http' = [http EXCEPT ![c] = [IdleHandler EXCEPT !.op = "budget_commit",
                   !.pc = "get_reservation", !.reservation_id = i, !.amount = n]]
    /\ UNCHANGED <<kv_budget, kv_reservation, kv_reservations_set, reservations_ttl,
                   audit_log>>
    /\ UNCHANGED <<ctlVars, cbVars, authVars, opsVars>>

\* if not reservation
ReservationMissingMutant(i) == FALSE
ReservationMissing(i) == kv_reservation[i] = {}

\* reservation = await redis.get(reservation_key); 404 when it is missing
CommitGetReservation(c) ==
    /\ http[c].op = "budget_commit"
    /\ http[c].pc = "get_reservation"
    /\ IF ReservationMissing(http[c].reservation_id)
       THEN http' = [http EXCEPT ![c].pc = "returned", ![c].status = 404]
       ELSE HGoto(c, "incrby")
    /\ UNCHANGED <<kv_budget, kv_reservation, kv_reservations_set, reservations_ttl,
                   audit_log, http_started>>
    /\ UNCHANGED <<ctlVars, cbVars, authVars, opsVars>>

\* redis.incrby(budget_key, actual_tokens)
CommitIncrby(c) ==
    /\ http[c].op = "budget_commit"
    /\ http[c].pc = "incrby"
    /\ kv_budget' = {UsedCounter + http[c].amount}
    /\ HGoto(c, "delete")
    /\ UNCHANGED <<kv_reservation, kv_reservations_set, reservations_ttl,
                   audit_log, http_started>>
    /\ UNCHANGED <<ctlVars, cbVars, authVars, opsVars>>

CommitDelete(c) ==
    /\ http[c].op = "budget_commit"
    /\ http[c].pc = "delete"
    /\ kv_reservation' = [kv_reservation EXCEPT ![http[c].reservation_id] = {}]
    /\ reservations_ttl' = [reservations_ttl EXCEPT
                               !.younger = @ \ {http[c].reservation_id}]
    /\ HGoto(c, "srem")
    /\ UNCHANGED <<kv_budget, kv_reservations_set, audit_log, http_started>>
    /\ UNCHANGED <<ctlVars, cbVars, authVars, opsVars>>

CommitSrem(c) ==
    /\ http[c].op = "budget_commit"
    /\ http[c].pc = "srem"
    /\ kv_reservations_set' = kv_reservations_set \ {http[c].reservation_id}
    /\ reservations_ttl' = AfterSrem(kv_reservations_set')
    /\ HGoto(c, "audit")
    /\ UNCHANGED <<kv_budget, kv_reservation, audit_log, http_started>>
    /\ UNCHANGED <<ctlVars, cbVars, authVars, opsVars>>

\* AuditLogger.log_action: the INSERT into audit_log; an exception of the
\* INSERT is logged and swallowed, the handler returns 200 either way.
LogAction(action, resource_id, inserted) ==
    audit_log' = IF inserted
                 THEN audit_log (+) SetToBag({AuditRow(action, resource_id)})
                 ELSE audit_log

CommitAudit(c, inserted) ==
    /\ http[c].op = "budget_commit"
    /\ http[c].pc = "audit"
    /\ LogAction("budget.commit", http[c].reservation_id, inserted)
    /\ http' = [http EXCEPT ![c].pc = "returned", ![c].status = 200]
    /\ UNCHANGED <<kv_budget, kv_reservation, kv_reservations_set, reservations_ttl,
                   http_started>>
    /\ UNCHANGED <<ctlVars, cbVars, authVars, opsVars>>

\* ---- budget_release ------------------------------------------------------

StartBudgetRelease(c, i) ==
    /\ http[c].pc = "idle"
    /\ c = http_started + 1
    /\ Nameable(c, i)
    /\ http_started' = c
    /\ http' = [http EXCEPT ![c] = [IdleHandler EXCEPT !.op = "budget_release",
                   !.pc = "delete", !.reservation_id = i]]
    /\ UNCHANGED <<kv_budget, kv_reservation, kv_reservations_set, reservations_ttl,
                   audit_log>>
    /\ UNCHANGED <<ctlVars, cbVars, authVars, opsVars>>

ReleaseDelete(c) ==
    /\ http[c].op = "budget_release"
    /\ http[c].pc = "delete"
    /\ kv_reservation' = [kv_reservation EXCEPT ![http[c].reservation_id] = {}]
    /\ reservations_ttl' = [reservations_ttl EXCEPT
                               !.younger = @ \ {http[c].reservation_id}]
    /\ HGoto(c, "srem")
    /\ UNCHANGED <<kv_budget, kv_reservations_set, audit_log, http_started>>
    /\ UNCHANGED <<ctlVars, cbVars, authVars, opsVars>>

ReleaseSrem(c) ==
    /\ http[c].op = "budget_release"
    /\ http[c].pc = "srem"
    /\ kv_reservations_set' = kv_reservations_set \ {http[c].reservation_id}
    /\ reservations_ttl' = AfterSrem(kv_reservations_set')
    /\ HGoto(c, "audit")
    /\ UNCHANGED <<kv_budget, kv_reservation, audit_log, http_started>>
    /\ UNCHANGED <<ctlVars, cbVars, authVars, opsVars>>

ReleaseAudit(c, inserted) ==
    /\ http[c].op = "budget_release"
    /\ http[c].pc = "audit"
    /\ LogAction("budget.release", http[c].reservation_id, inserted)
    /\ http' = [http EXCEPT ![c].pc = "returned", ![c].status = 200]
    /\ UNCHANGED <<kv_budget, kv_reservation, kv_reservations_set, reservations_ttl,
                   http_started>>
    /\ UNCHANGED <<ctlVars, cbVars, authVars, opsVars>>

\* The 3600 s TTL of a reservation key runs out (its set member stays).
ReservationExpires(i) ==
    /\ kv_reservation[i] # {}
    /\ kv_reservation' = [kv_reservation EXCEPT ![i] = {}]
    /\ reservations_ttl' = [reservations_ttl EXCEPT !.younger = @ \ {i}]
    /\ UNCHANGED <<kv_budget, kv_reservations_set, audit_log, http, http_started>>
    /\ UNCHANGED <<ctlVars, cbVars, authVars, opsVars>>

\* The 3600 s TTL that redis.expire(reservations_set, 3600) gave the set runs
\* out: the key goes with all its members.  Every reservation key written
\* before that EXPIRE has expired or been deleted by then.
ReservationsSetExpires ==
    /\ reservations_ttl.has_ttl
    /\ \A i \in ReservationIds :
          kv_reservation[i] # {} => i \in reservations_ttl.younger
    /\ kv_reservations_set' = {}
    /\ reservations_ttl' = [reservations_ttl EXCEPT !.has_ttl = FALSE]
    /\ UNCHANGED <<kv_budget, kv_reservation, audit_log, http, http_started>>
    /\ UNCHANGED <<ctlVars, cbVars, authVars, opsVars>>

\* ---- budget_state --------------------------------------------------------

\* GET /budget/state; counted records which reservations the loop added up.
StartBudgetState(c) ==
    /\ http[c].pc = "idle"
    /\ c = http_started + 1
    /\ http_started' = c
    /\ http' = [http EXCEPT ![c] = [IdleHandler EXCEPT !.op = "budget_state",
                   !.pc = "select_limit"]]
    /\ UNCHANGED <<kv_budget, kv_reservation, kv_reservations_set, reservations_ttl,
                   audit_log>>
    /\ UNCHANGED <<ctlVars, cbVars, authVars, opsVars>>

StateSelectLimit(c) ==
    /\ http[c].op = "budget_state"
    /\ http[c].pc = "select_limit"
    /\ http' = [http EXCEPT ![c].total_limit = SelectedLimit, ![c].pc = "get_used"]
    /\ UNCHANGED <<kv_budget, kv_reservation, kv_reservations_set, reservations_ttl,
                   audit_log, http_started>>
    /\ UNCHANGED <<ctlVars, cbVars, authVars, opsVars>>

StateGetUsed(c) ==
    /\ http[c].op = "budget_state"
    /\ http[c].pc = "get_used"
    /\ http' = [http EXCEPT ![c].used = UsedCounter, ![c].pc = "smembers"]
    /\ UNCHANGED <<kv_budget, kv_reservation, kv_reservations_set, reservations_ttl,
                   audit_log, http_started>>
    /\ UNCHANGED <<ctlVars, cbVars, authVars, opsVars>>

\* The return statement after the loop over reservation_ids.
Available(f) == f.total_limit - f.used - f.reserved

StateReport(f) ==
    [f EXCEPT !.pc = "returned", !.status = 200, !.available = Available(f)]

StateSmembers(c) ==
    /\ http[c].op = "budget_state"
    /\ http[c].pc = "smembers"
    /\ LET f == [http[c] EXCEPT !.ids = kv_reservations_set, !.reserved = 0] IN
        http' = [http EXCEPT ![c] =
                    IF f.ids = {} THEN StateReport(f)
                    ELSE [f EXCEPT !.pc = "get_reservation"]]
    /\ UNCHANGED <<kv_budget, kv_reservation, kv_reservations_set, reservations_ttl,
                   audit_log, http_started>>
    /\ UNCHANGED <<ctlVars, cbVars, authVars, opsVars>>

StateGetReservation(c, i) ==
    /\ http[c].op = "budget_state"
    /\ http[c].pc = "get_reservation"
    /\ i \in http[c].ids
    /\ LET live == kv_reservation[i] # {}
           f == [http[c] EXCEPT !.ids = @ \ {i},
                     !.reserved = IF live THEN @ + TokensOf(i) ELSE @,
                     !.counted = IF live THEN @ \cup {i} ELSE @] IN
        http' = [http EXCEPT ![c] = IF f.ids = {} THEN StateReport(f) ELSE f]
    /\ UNCHANGED <<kv_budget, kv_reservation, kv_reservations_set, reservations_ttl,
                   audit_log, http_started>>
    /\ UNCHANGED <<ctlVars, cbVars, authVars, opsVars>>

NextHttp ==
    \/ \E c \in HttpCalls, n \in Amounts : StartBudgetRequest(c, n)
    \/ \E c \in HttpCalls, i \in ReservationIds, n \in Amounts : StartBudgetCommit(c, i, n)
    \/ \E c \in HttpCalls, i \in ReservationIds : StartBudgetRelease(c, i)
    \/ \E c \in HttpCalls : RequestSelectLimit(c)
    \/ \E c \in HttpCalls : RequestGetUsed(c)
    \/ \E c \in HttpCalls : RequestSmembers(c)
    \/ \E c \in HttpCalls, i \in ReservationIds : RequestGetReservation(c, i)
    \/ \E c \in HttpCalls : RequestSetex(c)
    \/ \E c \in HttpCalls : RequestSadd(c)
    \/ \E c \in HttpCalls : RequestExpire(c)
    \/ \E c \in HttpCalls : CommitGetReservation(c)
    \/ \E c \in HttpCalls : CommitIncrby(c)
    \/ \E c \in HttpCalls : CommitDelete(c)
    \/ \E c \in HttpCalls : CommitSrem(c)
    \/ \E c \in HttpCalls, inserted \in BOOLEAN : CommitAudit(c, inserted)
    \/ \E c \in HttpCalls : ReleaseDelete(c)
    \/ \E c \in HttpCalls : ReleaseSrem(c)
    \/ \E c \in HttpCalls, inserted \in BOOLEAN : ReleaseAudit(c, inserted)
    \/ \E i \in ReservationIds : ReservationExpires(i)
    \/ ReservationsSetExpires

\* The handlers called one at a time: a client starts a call when every
\* earlier call has returned.  Reservation keys still expire at any moment.
HttpInFlight == {c \in HttpCalls : http[c].pc \notin {"idle", "returned"}}

BudgetRequestInTurn(c, n) == HttpInFlight = {} /\ StartBudgetRequest(c, n)

BudgetCommitInTurn(c, i, n) == HttpInFlight = {} /\ StartBudgetCommit(c, i, n)

BudgetReleaseInTurn(c, i) == HttpInFlight = {} /\ StartBudgetRelease(c, i)

BudgetStateInTurn(c) == HttpInFlight = {} /\ StartBudgetState(c)

NextHttpInTurn ==
    \/ \E c \in HttpCalls, n \in Amounts : BudgetRequestInTurn(c, n)
    \/ \E c \in HttpCalls, i \in ReservationIds, n \in Amounts :
          BudgetCommitInTurn(c, i, n)
    \/ \E c \in HttpCalls, i \in ReservationIds : BudgetReleaseInTurn(c, i)
    \/ \E c \in HttpCalls : BudgetStateInTurn(c)
    \/ \E c \in HttpCalls : RequestSelectLimit(c)
    \/ \E c \in HttpCalls : RequestGetUsed(c)
    \/ \E c \in HttpCalls : RequestSmembers(c)
    \/ \E c \in HttpCalls, i \in ReservationIds : RequestGetReservation(c, i)
    \/ \E c \in HttpCalls : RequestSetex(c)
    \/ \E c \in HttpCalls : RequestSadd(c)
    \/ \E c \in HttpCalls : RequestExpire(c)
    \/ \E c \in HttpCalls : CommitGetReservation(c)
    \/ \E c \in HttpCalls : CommitIncrby(c)
    \/ \E c \in HttpCalls : CommitDelete(c)
    \/ \E c \in HttpCalls : CommitSrem(c)
    \/ \E c \in HttpCalls, inserted \in BOOLEAN : CommitAudit(c, inserted)
    \/ \E c \in HttpCalls : ReleaseDelete(c)
    \/ \E c \in HttpCalls : ReleaseSrem(c)
    \/ \E c \in HttpCalls, inserted \in BOOLEAN : ReleaseAudit(c, inserted)
    \/ \E c \in HttpCalls : StateSelectLimit(c)
    \/ \E c \in HttpCalls : StateGetUsed(c)
    \/ \E c \in HttpCalls : StateSmembers(c)
    \/ \E c \in HttpCalls, i \in ReservationIds : StateGetReservation(c, i)
    \/ \E i \in ReservationIds : ReservationExpires(i)
    \/ ReservationsSetExpires

\* The handlers that write, called one at a time.
NextHttpWrites ==
    \/ \E c \in HttpCalls, n \in {1, MaxAmount} : BudgetRequestInTurn(c, n)
    \/ \E c \in HttpCalls, i \in ReservationIds, n \in {1, MaxAmount} :
          BudgetCommitInTurn(c, i, n)
    \/ \E c \in HttpCalls, i \in ReservationIds : BudgetReleaseInTurn(c, i)
    \/ \E c \in HttpCalls : RequestSelectLimit(c)
    \/ \E c \in HttpCalls : RequestGetUsed(c)
    \/ \E c \in HttpCalls : RequestSmembers(c)
    \/ \E c \in HttpCalls, i \in ReservationIds : RequestGetReservation(c, i)
    \/ \E c \in HttpCalls : RequestSetex(c)
    \/ \E c \in HttpCalls : RequestSadd(c)
    \/ \E c \in HttpCalls : RequestExpire(c)
    \/ \E c \in HttpCalls : CommitGetReservation(c)
    \/ \E c \in HttpCalls : CommitIncrby(c)
    \/ \E c \in HttpCalls : CommitDelete(c)
    \/ \E c \in HttpCalls : CommitSrem(c)
    \/ \E c \in HttpCalls, inserted \in BOOLEAN : CommitAudit(c, inserted)
    \/ \E c \in HttpCalls : ReleaseDelete(c)
    \/ \E c \in HttpCalls : ReleaseSrem(c)
    \/ \E c \in HttpCalls, inserted \in BOOLEAN : ReleaseAudit(c, inserted)
    \/ \E i \in ReservationIds : ReservationExpires(i)
    \/ ReservationsSetExpires

\* ---------------------------------------------------------- CircuitBreaker

AdmissionStates == {"closed", "half_open"}

NoReport == [kind |-> "none", met |-> "closed", admitted |-> "closed"]

Report(kind, k) == [kind |-> kind, met |-> state, admitted |-> k]

\* The CircuitBreaker objects of the process besides the one above, and the
\* names register is called with.  An object has the fields __init__ gives
\* it; locked is its asyncio.Lock, in_flight counts its admitted calls whose
\* wrapped function still runs, was is the state the latest reset_all found
\* it in ("none" once a call has completed on it since).
BreakerObjects == {"b1", "b2"}
BreakerNames == {"llm", "db"}

NewBreaker ==
    [state |-> "closed", failure_count |-> 0, success_count |-> 0,
     last_failure_time |-> {}, opened_at |-> {}, half_open_calls |-> 0,
     total_calls |-> 0, locked |-> FALSE, in_flight |-> 0, was |-> "none"]

InitBreaker ==
    /\ state = "closed"
    /\ failure_count = 0
    /\ success_count = 0
    /\ last_failure_time = {}
    /\ opened_at = {}
    /\ half_open_calls = 0
    /\ total_calls = 0
    /\ total_failures = 0
    /\ total_successes = 0
    /\ now = 1
    /\ in_flight = [k \in AdmissionStates |-> 0]
    /\ last_call = "none"
    /\ last_report = NoReport
    /\ streak = 0

InitCB ==
    /\ InitBreaker
    /\ breakers = [b \in BreakerObjects |-> NewBreaker]
    /\ registry = [name \in BreakerNames |-> {}]

InFlightTotal == in_flight["closed"] + in_flight["half_open"]

\* _should_attempt_reset: `not self.last_failure_time` holds for None and 0.0
ShouldAttemptResetMutant ==
    \/ opened_at = {}
    \/ now - (CHOOSE t \in opened_at : TRUE) >= RecoveryTimeout
ShouldAttemptReset ==
    \/ last_failure_time = {}
    \/ (CHOOSE t \in last_failure_time : TRUE) = 0
    \/ now - (CHOOSE t \in last_failure_time : TRUE) >= RecoveryTimeout

\* self.half_open_calls = 0 on the OPEN -> HALF_OPEN transition of call()
HalfOpenCallsOnResetMutant == half_open_calls
HalfOpenCallsOnReset == 0

\* call(): the block under the lock.  It has no await, so it is one step;
\* an admitted call leaves the lock and runs the wrapped function.
Call ==
    /\ total_calls < MaxBreakerCalls
    /\ total_calls' = total_calls + 1
    /\ LET reset_now == state = "open" /\ ShouldAttemptReset
           open_reject == state = "open" /\ ~ShouldAttemptReset
           st == IF reset_now THEN "half_open" ELSE state
           hoc == IF reset_now THEN HalfOpenCallsOnReset ELSE half_open_calls
           full_reject == ~open_reject /\ st = "half_open" /\ hoc >= HalfOpenMaxCalls
       IN
        /\ state' = st
        /\ IF open_reject \/ full_reject
           THEN /\ half_open_calls' = hoc
                /\ in_flight' = in_flight
                /\ last_call' = "CircuitOpenException"
           ELSE /\ half_open_calls' = IF st = "half_open" THEN hoc + 1 ELSE hoc
                /\ in_flight' = [in_flight EXCEPT ![st] = @ + 1]
                /\ last_call' = "invoked"
    /\ UNCHANGED <<failure_count, success_count, last_failure_time, opened_at,
                   total_failures, total_successes, now, last_report, streak,
                   breakers, registry>>
    /\ UNCHANGED <<ctlVars, httpVars, authVars, opsVars>>

\* _reset
ResetMutant ==
    /\ state' = "closed"
    /\ failure_count' = failure_count
    /\ success_count' = 0
    /\ last_failure_time' = {}
    /\ opened_at' = {}
    /\ half_open_calls' = 0
Reset ==
    /\ state' = "closed"
    /\ failure_count' = 0
    /\ success_count' = 0
    /\ last_failure_time' = {}
    /\ opened_at' = {}
    /\ half_open_calls' = 0

\* _on_success outside HALF_OPEN: failure_count after the CLOSED branch
FailureCountAfterSuccessMutant == failure_count
FailureCountAfterSuccess == IF state = "closed" THEN 0 ELSE failure_count

\* The wrapped function of a call admitted in state k returns: _on_success
OnSuccess(k) ==
    /\ in_flight[k] > 0
    /\ in_flight' = [in_flight EXCEPT ![k] = @ - 1]
    /\ total_successes' = total_successes + 1
    /\ last_report' = Report("success", k)
    /\ streak' = 0
    /\ IF state = "half_open"
       THEN Reset
       ELSE /\ success_count' = success_count + 1
            /\ failure_count' = FailureCountAfterSuccess
            /\ UNCHANGED <<state, last_failure_time, opened_at, half_open_calls>>
    /\ UNCHANGED <<total_calls, total_failures, now, last_call, breakers, registry>>
    /\ UNCHANGED <<ctlVars, httpVars, authVars, opsVars>>

\* _on_failure: the two branches that set state = OPEN, after the increment
TripsOpenMutant == state = "closed" /\ failure_count + 1 >= FailureThreshold
TripsOpen ==
    \/ state = "half_open"
    \/ (state = "closed" /\ failure_count + 1 >= FailureThreshold)

\* The wrapped function raises expected_exception: _on_failure
OnFailure(k) ==
    /\ in_flight[k] > 0
    /\ in_flight' = [in_flight EXCEPT ![k] = @ - 1]
    /\ total_failures' = total_failures + 1
    /\ failure_count' = failure_count + 1
    /\ last_failure_time' = {now}
    /\ last_report' = Report("failure", k)
    /\ streak' = streak + 1
    /\ IF TripsOpen
       THEN /\ state' = "open"
            /\ opened_at' = {now}
       ELSE UNCHANGED <<state, opened_at>>
    /\ UNCHANGED <<success_count, half_open_calls, total_calls, total_successes,
                   now, last_call, breakers, registry>>
    /\ UNCHANGED <<ctlVars, httpVars, authVars, opsVars>>

\* The wrapped function ends with an exception outside expected_exception
\* (or the task is cancelled): neither _on_success nor _on_failure runs.
FuncRaisesOther(k) ==
    /\ in_flight[k] > 0
    /\ in_flight' = [in_flight EXCEPT ![k] = @ - 1]
    /\ UNCHANGED <<state, failure_count, success_count, last_failure_time,
                   opened_at, half_open_calls, total_calls, total_failures,
                   total_successes, now, last_call, last_report, streak,
                   breakers, registry>>
    /\ UNCHANGED <<ctlVars, httpVars, authVars, opsVars>>

\* reset_manually
ResetManually ==
    /\ Reset
    /\ last_report' = [NoReport EXCEPT !.kind = "reset_manually", !.met = state]
    /\ UNCHANGED <<total_calls, total_failures, total_successes, now, in_flight,
                   last_call, streak, breakers, registry>>
    /\ UNCHANGED <<ctlVars, httpVars, authVars, opsVars>>

\* time.time() advances
Tick ==
    /\ now < MaxTime
    /\ now' = now + 1
    /\ UNCHANGED <<state, failure_count, success_count, last_failure_time,
                   opened_at, half_open_calls, total_calls, total_failures,
                   total_successes, in_flight, last_call, last_report, streak,
                   breakers, registry>>
    /\ UNCHANGED <<ctlVars, httpVars, authVars, opsVars>>

NextCB ==
    \/ Call
    \/ \E k \in AdmissionStates : OnSuccess(k)
    \/ \E k \in AdmissionStates : OnFailure(k)
    \/ \E k \in AdmissionStates : FuncRaisesOther(k)
    \/ ResetManually
    \/ Tick

\* A caller that issues its calls one at a time: the next call() starts when
\* the previous one has returned or raised.
CallInTurn ==
    /\ InFlightTotal = 0
    /\ Call

NextCBInTurn ==
    \/ CallInTurn
    \/ \E k \in AdmissionStates : OnSuccess(k)
    \/ \E k \in AdmissionStates : OnFailure(k)
    \/ \E k \in AdmissionStates : FuncRaisesOther(k)
    \/ Tick

\* ---- CircuitBreakerRegistry ----------------------------------------------

\* CircuitBreakerRegistry.__init__ leaves _breakers empty: a name maps to {}
\* (no entry) or to {b}, the object registered under it.
Registered == UNION {registry[name] : name \in BreakerNames}

\* register(name, breaker): self._breakers[name] = breaker adds the entry or
\* replaces the object the name stood for.
Register(name, breaker) ==
    /\ registry' = [registry EXCEPT ![name] = {breaker}]
    /\ UNCHANGED <<state, failure_count, success_count, last_failure_time,
                   opened_at, half_open_calls, total_calls, total_failures,
                   total_successes, now, in_flight, last_call, last_report,
                   streak, breakers>>
    /\ UNCHANGED <<ctlVars, httpVars, authVars, opsVars>>

\* Calls made so far on all breaker objects.
RECURSIVE PeerCalls(_)
PeerCalls(objects) ==
    IF objects = {} THEN 0
    ELSE LET b == CHOOSE x \in objects : TRUE
         IN  breakers[b].total_calls + PeerCalls(objects \ {b})

RegistryCalls == PeerCalls(BreakerObjects)

\* async with self._lock: a coroutine enters the block when the lock is free
\* and releases it at the end of the block.  No block under the lock awaits,
\* so the block is one step of the event loop.
Acquire(p) == [p EXCEPT !.locked = TRUE]
Release(p) == [p EXCEPT !.locked = FALSE]

\* _should_attempt_reset on the fields of a breaker object
PeerShouldAttemptReset(p) ==
    \/ p.last_failure_time = {}
    \/ (CHOOSE t \in p.last_failure_time : TRUE) = 0
    \/ now - (CHOOSE t \in p.last_failure_time : TRUE) >= RecoveryTimeout

\* call() on breaker object b: the block under its lock
PeerCall(b) ==
    /\ RegistryCalls < MaxRegistryCalls
    /\ ~breakers[b].locked
    /\ LET p == Acquire(breakers[b])
           reset_now == p.state = "open" /\ PeerShouldAttemptReset(p)
           open_reject == p.state = "open" /\ ~PeerShouldAttemptReset(p)
           st == IF reset_now THEN "half_open" ELSE p.state
           hoc == IF reset_now THEN 0 ELSE p.half_open_calls
           full_reject == ~open_reject /\ st = "half_open" /\ hoc >= HalfOpenMaxCalls
           q == [p EXCEPT !.total_calls = @ + 1, !.state = st, !.half_open_calls = hoc]
       IN  breakers' = [breakers EXCEPT ![b] = Release(
               IF open_reject \/ full_reject THEN q
               ELSE [q EXCEPT !.half_open_calls = IF st = "half_open" THEN hoc + 1 ELSE hoc,
                              !.in_flight = @ + 1])]
    /\ UNCHANGED <<state, failure_count, success_count, last_failure_time,
                   opened_at, half_open_calls, total_calls, total_failures,
                   total_successes, now, in_flight, last_call, last_report,
                   streak, registry>>
    /\ UNCHANGED <<ctlVars, httpVars, authVars, opsVars>>

\* _reset on the fields of a breaker object
PeerResetMutant(p) ==
    [p EXCEPT !.state = "closed", !.failure_count = 0, !.success_count = 0,
              !.opened_at = {}, !.half_open_calls = 0]
PeerReset(p) ==
    [p EXCEPT !.state = "closed", !.failure_count = 0, !.success_count = 0,
              !.last_failure_time = {}, !.opened_at = {}, !.half_open_calls = 0]

\* _on_success of a call on breaker object b
PeerOnSuccess(b) ==
    /\ breakers[b].in_flight > 0
    /\ ~breakers[b].locked
    /\ LET p == [Acquire(breakers[b]) EXCEPT !.in_flight = @ - 1,
                                             !.was = "none"] IN
        breakers' = [breakers EXCEPT ![b] = Release(
            IF p.state = "half_open" THEN PeerReset(p)
            ELSE [p EXCEPT !.success_count = @ + 1,
                           !.failure_count = IF p.state = "closed" THEN 0 ELSE @])]
    /\ UNCHANGED <<state, failure_count, success_count, last_failure_time,
                   opened_at, half_open_calls, total_calls, total_failures,
                   total_successes, now, in_flight, last_call, last_report,
                   streak, registry>>
    /\ UNCHANGED <<ctlVars, httpVars, authVars, opsVars>>

\* _on_failure of a call on breaker object b
PeerOnFailure(b) ==
    /\ breakers[b].in_flight > 0
    /\ ~breakers[b].locked
    /\ LET p == [Acquire(breakers[b]) EXCEPT !.in_flight = @ - 1,
                                             !.was = "none",
                                             !.failure_count = @ + 1,
                                             !.last_failure_time = {now}] IN
        breakers' = [breakers EXCEPT ![b] = Release(
            IF \/ p.state = "half_open"
               \/ (p.state = "closed" /\ p.failure_count >= FailureThreshold)
            THEN [p EXCEPT !.state = "open", !.opened_at = {now}]
            ELSE p)]
    /\ UNCHANGED <<state, failure_count, success_count, last_failure_time,
                   opened_at, half_open_calls, total_calls, total_failures,
                   total_successes, now, in_flight, last_call, last_report,
                   streak, registry>>
    /\ UNCHANGED <<ctlVars, httpVars, authVars, opsVars>>

\* reset_manually on the fields of a breaker object: _reset under its lock.
PeerResetManually(p) == Release(PeerReset(Acquire(p)))

\* CircuitBreakerRegistry.reset_all: for each entry of _breakers, await
\* reset_manually().  No lock of a breaker is held across an await, so every
\* acquire succeeds at once and the loop runs without yielding to the event
\* loop; an object that is in no entry is not touched.
AfterResetAll ==
    [b \in BreakerObjects |->
        IF b \in Registered
        THEN [PeerResetManually(breakers[b]) EXCEPT !.was = breakers[b].state]
        ELSE breakers[b]]

\* reset_all called on the registry by a task of its own.
ResetAll ==
    /\ \A b \in Registered : ~breakers[b].locked
    /\ breakers' = AfterResetAll
    /\ UNCHANGED <<state, failure_count, success_count, last_failure_time,
                   opened_at, half_open_calls, total_calls, total_failures,
                   total_successes, now, in_flight, last_call, last_report,
                   streak, registry>>
    /\ UNCHANGED <<ctlVars, httpVars, authVars, opsVars>>

\* time.time() advances in the runs of the registry.
RegistryTick ==
    /\ now < MaxRegistryTime
    /\ Tick

NextRegistry ==
    \/ \E name \in BreakerNames, b \in BreakerObjects : Register(name, b)
    \/ \E b \in BreakerObjects : PeerCall(b)
    \/ \E b \in BreakerObjects : PeerOnSuccess(b)
    \/ \E b \in BreakerObjects : PeerOnFailure(b)
    \/ ResetAll
    \/ RegistryTick

\* -------------------------------------------------------------------- RBAC

\* ROLE_PERMISSIONS
RolePermissionsTable ==
    [admin |-> {"system.admin", "escalation.view", "escalation.resolve",
                "escalation.create", "task.create", "task.update",
                "task.delete", "task.view", "agent.configure", "agent.view",
                "budget.view", "budget.configure", "learning.approve",
                "learning.view", "metrics.view"},
     operator |-> {"escalation.view", "escalation.resolve", "task.create",
                   "task.update", "task.view", "agent.view", "budget.view",
                   "learning.view", "metrics.view"},
     developer |-> {"task.create", "task.update", "task.view", "agent.view",
                    "metrics.view"},
     observer |-> {"task.view", "agent.view", "metrics.view"}]

KnownRoles == DOMAIN RolePermissionsTable

\* ROLE_PERMISSIONS.get(role, [])
RolePermissions(role) ==
    IF role \in KnownRoles THEN RolePermissionsTable[role] ELSE {}

\* A JWT: the payload keys sub, role and permissions ({} when the key is
\* missing, else the singleton of its value), whether exp has passed and
\* whether the HS256 signature matches secret_key.
Token(sub, role, permissions, expired, sig_ok) ==
    [sub |-> sub, role |-> role, permissions |-> permissions,
     expired |-> expired, sig_ok |-> sig_ok]

\* generate_token(user_id, role)
GenerateToken(user_id, role) ==
    Token({user_id}, {role}, {RolePermissions(role)}, FALSE, TRUE)

\* payload.get(key, default)
PayloadGet(field, default) ==
    IF field = {} THEN default ELSE CHOOSE v \in field : TRUE

Principal(user_id, role, permissions) ==
    [user_id |-> user_id, role |-> role, permissions |-> permissions]

NoPrincipal == Principal("", "", {})

Outcome(status, principal) == [status |-> status, principal |-> principal]

\* The except clauses of verify_token name jwt.InvalidTokenError: where the
\* jwt module has no such attribute, an exception that is not
\* ExpiredSignatureError ends as an AttributeError (500) instead of 401.
Rejections == {Outcome(401, NoPrincipal), Outcome(500, NoPrincipal)}

\* verify_token: the outcomes it can end with for a bearer token
VerifyToken(token) ==
    IF ~token.sig_ok THEN Rejections
    ELSE IF token.expired THEN {Outcome(401, NoPrincipal)}
    ELSE LET user_id == PayloadGet(token.sub, "")
             role == PayloadGet(token.role, "observer")
             permissions == PayloadGet(token.permissions, {})
         IN  IF user_id = "" THEN Rejections
             ELSE {Outcome(200, Principal(user_id, role, permissions))}

\* require_permission: required - user_permissions
MissingMutant(required, user_permissions) == required
Missing(required, user_permissions) == required \ user_permissions

\* Inputs: user ids, role strings, permission lists of a payload, and the
\* capability tuples a route is wrapped with.
UserIds == {"", "alice"}
RoleStrings == {"admin", "operator", "developer", "observer", "guest"}
PayloadPermissions ==
    {{}, {"task.view"}, {"system.admin", "task.view"},
     RolePermissionsTable["observer"], RolePermissionsTable["admin"]}
RequiredPermissions == SUBSET {"task.view", "task.create", "system.admin"}

\* Tokens signed with secret_key by another issuer, or damaged in transit.
ForeignTokens ==
    {Token(sub, role, permissions, FALSE, sig_ok) :
        sub \in {{}} \cup {{u} : u \in UserIds},
        role \in {{}} \cup {{r} : r \in RoleStrings},
        permissions \in {{}} \cup {{p} : p \in PayloadPermissions},
        sig_ok \in BOOLEAN}

IdleRequest ==
    [pc |-> "idle", token |-> Token({}, {}, {}, FALSE, FALSE), minted |-> FALSE,
     status |-> 0, principal |-> NoPrincipal, required |-> {}, missing |-> {},
     executed |-> FALSE]

InitRbac == rbac = IdleRequest

\* A client obtains a token from generate_token and presents it.
PresentMinted(user_id, role) ==
    /\ rbac.pc = "idle"
    /\ rbac' = [rbac EXCEPT !.pc = "presented", !.minted = TRUE,
                            !.token = GenerateToken(user_id, role)]
    /\ UNCHANGED <<login_username, login_counter, login, login_started>>
    /\ UNCHANGED <<ctlVars, httpVars, cbVars, opsVars>>

\* A client presents a token that generate_token did not make.
PresentForeign(token) ==
    /\ rbac.pc = "idle"
    /\ rbac' = [rbac EXCEPT !.pc = "presented", !.token = token]
    /\ UNCHANGED <<login_username, login_counter, login, login_started>>
    /\ UNCHANGED <<ctlVars, httpVars, cbVars, opsVars>>

\* The exp of the token passes before it is verified.
TokenExpires ==
    /\ rbac.pc = "presented"
    /\ ~rbac.token.expired
    /\ rbac' = [rbac EXCEPT !.token.expired = TRUE]
    /\ UNCHANGED <<login_username, login_counter, login, login_started>>
    /\ UNCHANGED <<ctlVars, httpVars, cbVars, opsVars>>

\* Depends(self.verify_token)
Verify(outcome) ==
    /\ rbac.pc = "presented"
    /\ outcome \in VerifyToken(rbac.token)
    /\ rbac' = [rbac EXCEPT !.pc = IF outcome.status = 200 THEN "verified"
                                   ELSE "rejected",
                            !.status = outcome.status,
                            !.principal = outcome.principal]
    /\ UNCHANGED <<login_username, login_counter, login, login_started>>
    /\ UNCHANGED <<ctlVars, httpVars, cbVars, opsVars>>

\* The wrapper of require_permission(*required) around the route function.
RequirePermission(required) ==
    /\ rbac.pc = "verified"
    /\ LET user_permissions == rbac.principal.permissions IN
        IF ~(required \subseteq user_permissions)
        THEN rbac' = [rbac EXCEPT !.pc = "done", !.status = 403,
                          !.required = required,
                          !.missing = Missing(required, user_permissions),
                          !.executed = FALSE]
        ELSE rbac' = [rbac EXCEPT !.pc = "done", !.status = 200,
                          !.required = required, !.missing = {},
                          !.executed = TRUE]
    /\ UNCHANGED <<login_username, login_counter, login, login_started>>
    /\ UNCHANGED <<ctlVars, httpVars, cbVars, opsVars>>

\* class Permission: its attributes and their values.
PermissionClass ==
    [ESCALATION_VIEW |-> "escalation.view",
     ESCALATION_RESOLVE |-> "escalation.resolve",
     ESCALATION_CREATE |-> "escalation.create",
     TASK_CREATE |-> "task.create", TASK_UPDATE |-> "task.update",
     TASK_DELETE |-> "task.delete", TASK_VIEW |-> "task.view",
     AGENT_CONFIGURE |-> "agent.configure", AGENT_VIEW |-> "agent.view",
     BUDGET_VIEW |-> "budget.view", BUDGET_CONFIGURE |-> "budget.configure",
     LEARNING_APPROVE |-> "learning.approve", LEARNING_VIEW |-> "learning.view",
     SYSTEM_ADMIN |-> "system.admin", METRICS_VIEW |-> "metrics.view"]

\* The attribute of Permission that the decorator of each protected route of
\* api.new_endpoints names: @rbac.require_permission(Permission.<attribute>).
RouteDecorator ==
    [budget_request |-> "BUDGET_VIEW", budget_commit |-> "BUDGET_VIEW",
     budget_release |-> "BUDGET_VIEW", budget_state |-> "BUDGET_VIEW",
     get_dlq_messages |-> "READ_DLQ", get_dlq_message |-> "READ_DLQ",
     resolve_dlq_message |-> "SYSTEM_ADMIN",
     reset_all_circuit_breakers |-> "SYSTEM_ADMIN"]

ProtectedRoutes == DOMAIN RouteDecorator

\* Permission.<attribute>: the singleton of its value, {} for AttributeError.
\* The decorators are evaluated when api.new_endpoints is imported
\* (demo_server: from api.new_endpoints import router), so an AttributeError
\* ends the import and none of the routes is served.
PermissionAttr(attribute) ==
    IF attribute \in DOMAIN PermissionClass
    THEN {PermissionClass[attribute]} ELSE {}

\* The response is sent; the next request starts from nothing.
NextRequest ==
    /\ rbac.pc \in {"rejected", "done"}
    /\ rbac' = IdleRequest
    /\ UNCHANGED <<login_username, login_counter, login, login_started>>
    /\ UNCHANGED <<ctlVars, httpVars, cbVars, opsVars>>

NextRbac ==
    \/ \E u \in UserIds, r \in RoleStrings : PresentMinted(u, r)
    \/ \E t \in ForeignTokens : PresentForeign(t)
    \/ TokenExpires
    \/ \E o \in Rejections \cup
                {Outcome(200, Principal(u, r, p)) :
                    u \in UserIds, r \in RoleStrings,
                    p \in PayloadPermissions \cup
                          {RolePermissions(x) : x \in RoleStrings}} : Verify(o)
    \/ \E required \in RequiredPermissions : RequirePermission(required)
    \/ NextRequest

\* ------------------------------------------------------------ login lockout

LoginCalls == 1..MaxLoginCalls

\* DEMO_USERS: every demo user has the role of its own name.
DemoUsers == {"admin", "operator", "developer", "observer"}
DemoUserRole(username) == username

LoginUsernames == {"admin", "mallory"}

\* The lock key: its integer value and its TTL in ticks ({} = no TTL).
LockKey(value, ttl) == [value |-> value, ttl |-> ttl]

CounterValue ==
    IF login_counter = {} THEN 0 ELSE (CHOOSE k \in login_counter : TRUE).value

CounterTtl ==
    IF login_counter = {} THEN {} ELSE (CHOOSE k \in login_counter : TRUE).ttl

IdleLogin ==
    [pc |-> "idle", password_ok |-> FALSE, attempts |-> 0, status |-> 0,
     reason |-> "", token |-> {}]

InitLoginKeys ==
    /\ login_counter = {}
    /\ login = [c \in LoginCalls |-> IdleLogin]
    /\ login_started = 0

\* if attempts > LOGIN_MAX_ATTEMPTS
LockedOutMutant(attempts) == attempts >= LoginMaxAttempts
LockedOut(attempts) == attempts > LoginMaxAttempts

\* DEMO_USERS.get(username_lower) and bcrypt.checkpw: no await in between
CheckCredentials(f) ==
    IF login_username \notin DemoUsers
    THEN [f EXCEPT !.pc = "audit_fail", !.reason = "user_not_found"]
    ELSE IF ~f.password_ok
    THEN [f EXCEPT !.pc = "audit_fail", !.reason = "invalid_password"]
    ELSE [f EXCEPT !.pc = "delete"]

\* The lockout test and what follows it up to the next await.
AfterCounterMutant(f) == CheckCredentials(f)
AfterCounter(f) ==
    IF LockedOut(f.attempts)
    THEN [f EXCEPT !.pc = "returned", !.status = 429]
    ELSE CheckCredentials(f)

\* POST /auth/login for the modelled (username, client ip); password_ok says
\* whether the password of the request is the user's password, which no
\* password is when DEMO_USERS has no such user.
StartLogin(c, password_ok) ==
    /\ login[c].pc = "idle"
    /\ c = login_started + 1
    /\ password_ok => login_username \in DemoUsers
    /\ login_started' = c
    /\ login' = [login EXCEPT ![c] = [IdleLogin EXCEPT !.pc = "incr",
                                         !.password_ok = password_ok]]
    /\ UNCHANGED <<login_username, login_counter, rbac>>
    /\ UNCHANGED <<ctlVars, httpVars, cbVars, opsVars>>

\* attempts = await redis.incr(lock_key)
LoginIncr(c) ==
    /\ login[c].pc = "incr"
    /\ LET n == CounterValue + 1
           f == [login[c] EXCEPT !.attempts = n] IN
        /\ login_counter' = {LockKey(n, CounterTtl)}
        /\ login' = [login EXCEPT ![c] =
                        IF n = 1 THEN [f EXCEPT !.pc = "expire"] ELSE AfterCounter(f)]
    /\ UNCHANGED <<login_username, login_started, rbac>>
    /\ UNCHANGED <<ctlVars, httpVars, cbVars, opsVars>>

\* await redis.expire(lock_key, LOGIN_LOCKOUT_TTL); no effect on a missing key
LoginExpire(c) ==
    /\ login[c].pc = "expire"
    /\ login_counter' = {LockKey(k.value, {LockoutWindow}) : k \in login_counter}
    /\ login' = [login EXCEPT ![c] = AfterCounter(login[c])]
    /\ UNCHANGED <<login_username, login_started, rbac>>
    /\ UNCHANGED <<ctlVars, httpVars, cbVars, opsVars>>

\* audit.log_action(action="auth.login.fail", ...); raise HTTPException(401)
LoginAuditFail(c, inserted) ==
    /\ login[c].pc = "audit_fail"
    /\ LogAction("auth.login.fail", login_username, inserted)
    /\ login' = [login EXCEPT ![c].pc = "returned", ![c].status = 401]
    /\ UNCHANGED <<kv_budget, kv_reservation, kv_reservations_set, reservations_ttl,
                   http, http_started>>
    /\ UNCHANGED <<login_username, login_counter, login_started, rbac>>
    /\ UNCHANGED <<ctlVars, cbVars, opsVars>>

\* redis.delete(lock_key)
DeletedMutant(key) == key
Deleted(key) == {}

\* await redis.delete(lock_key); token = rbac.generate_token(...)
LoginDelete(c) ==
    /\ login[c].pc = "delete"
    /\ login_counter' = Deleted(login_counter)
    /\ login' = [login EXCEPT ![c].pc = "audit_success",
                     ![c].token = {GenerateToken(login_username,
                                                 DemoUserRole(login_username))}]
    /\ UNCHANGED <<login_username, login_started, rbac>>
    /\ UNCHANGED <<ctlVars, httpVars, cbVars, opsVars>>

\* audit.log_action(action="auth.login.success", ...); return LoginResponse
LoginAuditSuccess(c, inserted) ==
    /\ login[c].pc = "audit_success"
    /\ LogAction("auth.login.success", login_username, inserted)
    /\ login' = [login EXCEPT ![c].pc = "returned", ![c].status = 200]
    /\ UNCHANGED <<kv_budget, kv_reservation, kv_reservations_set, reservations_ttl,
                   http, http_started>>
    /\ UNCHANGED <<login_username, login_counter, login_started, rbac>>
    /\ UNCHANGED <<ctlVars, cbVars, opsVars>>

\* The request task is cancelled (client disconnect) while the coroutine
\* waits at an await: the pending command is not issued.
LoginCancelled(c) ==
    /\ login[c].pc \in {"incr", "expire", "audit_fail", "delete", "audit_success"}
    /\ login' = [login EXCEPT ![c] = [IdleLogin EXCEPT !.pc = "cancelled"]]
    /\ UNCHANGED <<login_username, login_counter, login_started, rbac>>
    /\ UNCHANGED <<ctlVars, httpVars, cbVars, opsVars>>

\* One tick of the key's TTL; the key is removed when it runs out.
LoginTick ==
    /\ CounterTtl # {}
    /\ login_counter' =
          {LockKey(k.value, {t - 1 : t \in k.ttl}) :
              k \in {x \in login_counter : x.ttl # {1}}}
    /\ UNCHANGED <<login_username, login, login_started, rbac>>
    /\ UNCHANGED <<ctlVars, httpVars, cbVars, opsVars>>

NextLogin ==
    \/ \E c \in LoginCalls, ok \in BOOLEAN : StartLogin(c, ok)
    \/ \E c \in LoginCalls : LoginIncr(c)
    \/ \E c \in LoginCalls : LoginExpire(c)
    \/ \E c \in LoginCalls, inserted \in BOOLEAN : LoginAuditFail(c, inserted)
    \/ \E c \in LoginCalls : LoginDelete(c)
    \/ \E c \in LoginCalls, inserted \in BOOLEAN : LoginAuditSuccess(c, inserted)
    \/ \E c \in LoginCalls : LoginCancelled(c)
    \/ LoginTick

\* ------------------------------------------------------------ SafePublisher

PublishCalls == 1..MaxPublishCalls

\* Subjects of the streams PRC_EVENTS and ESCALATIONS.
Subjects == {"prc.s1.response", "supervisor.escalation"}

\* Optional[dict] headers: {} is None, {d} is the dict d; a dict is a set of
\* <<key, value>> pairs with one pair per key.
CallerHeaders ==
    {{}, {{}}, {{<<"trace_id", "t1">>, <<"error", "stale">>}}}

\* How js.publish ends: the PubAck, asyncio.TimeoutError, or another
\* exception, named by its str(e).
JsOutcomes == {"ack", "timeout", "nats: no response from stream"}

\* d[key] = value
DictSet(d, key, value) == {p \in d : p[1] # key} \cup {<<key, value>>}

\* f"dlq.{original_subject}"
DlqSubject(original_subject) == "dlq." \o original_subject

\* headers.copy() if headers else {}
HeadersCopy(headers) ==
    IF headers = {} \/ headers = {{}} THEN {} ELSE CHOOSE d \in headers : TRUE

\* The error argument of _route_to_dlq: "timeout" or str(e).
ErrorText(outcome) == outcome

\* dlq_headers of _route_to_dlq.
DlqHeadersMutant(original_subject, headers, error) ==
    DictSet(HeadersCopy(headers), "original_subject", original_subject)
DlqHeaders(original_subject, headers, error) ==
    DictSet(DictSet(DictSet(HeadersCopy(headers),
                            "original_subject", original_subject),
                    "error", error),
            "dlq_timestamp", "utcnow")

Message(subject, data, headers) ==
    [subject |-> subject, data |-> data, headers |-> headers]

IdlePublish ==
    [pc |-> "idle", subject |-> "", headers |-> {}, error |-> "",
     raised |-> ""]

InitPub ==
    /\ publish = [c \in PublishCalls |-> IdlePublish]
    /\ publish_started = 0
    /\ js_stream = <<>>
    /\ nc_sent = <<>>

\* publisher.publish(subject, data, headers)
StartPublish(c, subject, headers) ==
    /\ publish[c].pc = "idle"
    /\ c = publish_started + 1
    /\ publish_started' = c
    /\ publish' = [publish EXCEPT ![c] = [IdlePublish EXCEPT !.pc = "js_publish",
                       !.subject = subject, !.headers = headers]]
    /\ UNCHANGED <<js_stream, nc_sent>>
    /\ UNCHANGED <<ctlVars, httpVars, cbVars, authVars>>
    /\ UNCHANGED <<dlqVars, migVars>>

\* ack = await self.js.publish(subject, data, headers=headers, timeout=timeout)
\* A publish whose ack did not arrive may or may not have been stored.
JsPublish(c, outcome, stored) ==
    /\ publish[c].pc = "js_publish"
    /\ outcome = "ack" => stored
    /\ outcome = "nats: no response from stream" => ~stored
    /\ js_stream' = IF stored
                    THEN Append(js_stream, Message(publish[c].subject, "data",
                                                   publish[c].headers))
                    ELSE js_stream
    /\ publish' = [publish EXCEPT ![c].error = outcome,
                       ![c].pc = IF outcome = "ack" THEN "returned" ELSE "nc_publish"]
    /\ UNCHANGED <<publish_started, nc_sent>>
    /\ UNCHANGED <<ctlVars, httpVars, cbVars, authVars>>
    /\ UNCHANGED <<dlqVars, migVars>>

\* _route_to_dlq: await self.nc.publish(dlq_subject, data, headers=dlq_headers),
\* whose exception is logged and swallowed; then the bare raise of publish.
NcPublish(c, delivered) ==
    /\ publish[c].pc = "nc_publish"
    /\ nc_sent' = Append(nc_sent,
           [message |-> Message(DlqSubject(publish[c].subject), "data",
                                DlqHeaders(publish[c].subject, publish[c].headers,
                                           ErrorText(publish[c].error))),
            by |-> c, delivered |-> delivered])
    /\ publish' = [publish EXCEPT ![c].pc = "raised", ![c].raised = publish[c].error]
    /\ UNCHANGED <<publish_started, js_stream>>
    /\ UNCHANGED <<ctlVars, httpVars, cbVars, authVars>>
    /\ UNCHANGED <<dlqVars, migVars>>

NextPub ==
    \/ \E c \in PublishCalls, s \in Subjects, h \in CallerHeaders : StartPublish(c, s, h)
    \/ \E c \in PublishCalls, o \in JsOutcomes, stored \in BOOLEAN : JsPublish(c, o, stored)
    \/ \E c \in PublishCalls, delivered \in BOOLEAN : NcPublish(c, delivered)

\* ---------------------------------------------------------------- DLQWorker

\* What the stream holds for one sequence number: the message, how often it
\* was delivered to the consumer dlq_processor, whether it was acked, and
\* whether it is outstanding: delivered, neither acked nor its ack_wait over.
Stored(message, num_delivered, acked, outstanding) ==
    [message |-> message, num_delivered |-> num_delivered, acked |-> acked,
     outstanding |-> outstanding]

\* A Msg that sub.fetch hands to the worker: the stored message of a sequence
\* number with msg.metadata.num_delivered, the count of that delivery.
Msg(seq, message, num_delivered) ==
    [seq |-> seq, message |-> message, num_delivered |-> num_delivered]

\* Payloads of the messages on the DLQ stream, as bytes: b"data", and a
\* payload that is no UTF-8 (a publisher sends any bytes).
Payloads == {<<100, 97, 116, 97>>, <<100, 255>>}

\* The messages that reach the DLQ stream: what _route_to_dlq publishes, for
\* the subjects above and one more of PRC_EVENTS (prc.{session_id}.{event}).
DlqArrivals ==
    {Message(DlqSubject(s), data, DlqHeaders(s, {}, "timeout")) :
        s \in Subjects \cup {"prc.escalation7.response"}, data \in Payloads}

\* UTF-8: the number of bytes of the sequence a lead byte begins, 0 for a
\* byte that begins none.
SequenceLength(lead) ==
    IF lead < 128 THEN 1
    ELSE IF lead >= 194 /\ lead <= 223 THEN 2
    ELSE IF lead >= 224 /\ lead <= 239 THEN 3
    ELSE IF lead >= 240 /\ lead <= 244 THEN 4
    ELSE 0

\* The values the byte after the lead byte may have (no overlong forms, no
\* surrogates, nothing above U+10FFFF), and those of the bytes after it.
SecondBytes(lead) ==
    IF lead = 224 THEN 160..191
    ELSE IF lead = 237 THEN 128..159
    ELSE IF lead = 240 THEN 144..191
    ELSE IF lead = 244 THEN 128..143
    ELSE 128..191

\* The code point of the sequence of n bytes at position i.
CodePoint(bytes, i, n) ==
    IF n = 1 THEN bytes[i]
    ELSE IF n = 2 THEN (bytes[i] - 192) * 64 + (bytes[i + 1] - 128)
    ELSE IF n = 3 THEN (bytes[i] - 224) * 4096 + (bytes[i + 1] - 128) * 64
                       + (bytes[i + 2] - 128)
    ELSE (bytes[i] - 240) * 262144 + (bytes[i + 1] - 128) * 4096
         + (bytes[i + 2] - 128) * 64 + (bytes[i + 3] - 128)

\* msg.data.decode('utf-8') from position i on: the singleton of the text
\* (its code points), {} for UnicodeDecodeError.
RECURSIVE DecodeFrom(_, _)
DecodeFrom(bytes, i) ==
    IF i > Len(bytes) THEN {<<>>}
    ELSE LET n == SequenceLength(bytes[i]) IN
         IF \/ n = 0
            \/ i + n - 1 > Len(bytes)
            \/ (n >= 2 /\ bytes[i + 1] \notin SecondBytes(bytes[i]))
            \/ \E j \in (i + 2)..(i + n - 1) : bytes[j] \notin 128..191
         THEN {}
         ELSE {<<CodePoint(bytes, i, n)>> \o rest : rest \in DecodeFrom(bytes, i + n)}

Decode(bytes) == DecodeFrom(bytes, 1)

\* msg.data.decode('utf-8') of each payload that arrives.
Decoded == [bytes \in Payloads |-> Decode(bytes)]

\* The positions at which word occurs in the string s.
Occurrences(s, word) ==
    {i \in 1..(Len(s) - Len(word) + 1) : SubSeq(s, i, i + Len(word) - 1) = word}

\* subject.replace("dlq.", "", 1): the first occurrence is removed
ReplaceDlqOnce(subject) ==
    LET found == Occurrences(subject, "dlq.") IN
    IF found = {} THEN subject
    ELSE LET i == CHOOSE k \in found : \A j \in found : k <= j
         IN  SubSeq(subject, 1, i - 1) \o SubSeq(subject, i + Len("dlq."), Len(subject))

\* "escalation" in original_subject
MentionsEscalation(original_subject) ==
    Occurrences(original_subject, "escalation") # {}

\* json.dumps(headers)
JsonDumps(headers) == [json |-> headers]

\* The row process_dlq_message inserts for the Msg in its hands, whose
\* payload it has decoded; error_count is msg.metadata.num_delivered.
DLQRecord(msg) ==
    [original_subject |-> ReplaceDlqOnce(msg.message.subject),
     data |-> CHOOSE text \in Decoded[msg.message.data] : TRUE,
     headers |-> JsonDumps(msg.message.headers),
     error_count |-> msg.num_delivered]

\* A row of dlq_messages: the columns of the INSERT with the defaults of the
\* table for the others (id SERIAL PRIMARY KEY, resolved BOOLEAN DEFAULT FALSE,
\* resolution_notes, {} for NULL).
DlqRow(id, record) ==
    [id |-> id, original_subject |-> record.original_subject,
     data |-> record.data, headers |-> record.headers,
     error_count |-> record.error_count,
     resolved |-> FALSE, resolution_notes |-> {}]

\* start() calls on the one DLQWorker object; a frame is idle until its call.
StartCalls == 1..MaxStartCalls

IdleWorker == [pc |-> "idle", batch |-> <<>>]

\* DLQWorker.__init__: self.running = False.
InitDlqWorker ==
    /\ dlq_stream = <<>>
    /\ dlq_messages = EmptyBag
    /\ dlq_worker = [c \in StartCalls |-> IdleWorker]
    /\ running = FALSE

\* Deliveries the consumer has made so far, of the messages from k on.
RECURSIVE Deliveries(_)
Deliveries(k) ==
    IF k > Len(dlq_stream) THEN 0
    ELSE dlq_stream[k].num_delivered + Deliveries(k + 1)

\* Sequence numbers that are due: not acked and not outstanding (never
\* delivered, or the ack_wait of the last delivery is over).
Due ==
    {k \in DOMAIN dlq_stream :
        ~dlq_stream[k].acked /\ ~dlq_stream[k].outstanding}

\* Sequence numbers the consumer delivers to a fetch: those that are due,
\* as long as the run's deliveries are within MaxDeliveries.
Deliverable ==
    IF Deliveries(1) + Cardinality(Due) <= MaxDeliveries THEN Due ELSE {}

RECURSIVE InOrder(_)
InOrder(seqs) ==
    IF seqs = {} THEN <<>>
    ELSE LET k == CHOOSE x \in seqs : \A y \in seqs : x <= y
         IN  <<k>> \o InOrder(seqs \ {k})

\* while self.running: the test, and what it leads to without an await in
\* between: the call of sub.fetch, or the end of start().
WhileRunning == [pc |-> IF running THEN "fetch" ELSE "returned", batch |-> <<>>]

\* After a message of the batch is done with: the test of the while loop, or
\* process_dlq_message of the next one up to its first await.  The decode of
\* the payload comes before the try block: its UnicodeDecodeError leaves the
\* for loop for the except clause of start, which sleeps (5 s), the message
\* and the rest of the batch neither inserted nor acked.
NextInBatch(batch) ==
    IF batch = <<>> THEN WhileRunning
    ELSE IF Decoded[Head(batch).message.data] = {}
    THEN [pc |-> "sleep", batch |-> <<>>]
    ELSE [pc |-> "insert", batch |-> batch]

\* start(): self.running = True; js = self.nc.jetstream(); up to the await of
\* js.pull_subscribe.  start() does not look at an earlier call's loop.
WorkerStart(c) ==
    /\ dlq_worker[c].pc = "idle"
    /\ \A d \in StartCalls : d < c => dlq_worker[d].pc # "idle"
    /\ running' = TRUE
    /\ dlq_worker' = [dlq_worker EXCEPT ![c].pc = "subscribe"]
    /\ UNCHANGED <<dlq_stream, dlq_messages>>
    /\ UNCHANGED <<ctlVars, httpVars, cbVars, authVars, pubVars, migVars>>

\* sub = await js.pull_subscribe("dlq.>", "dlq_processor"); when it raises,
\* start() logs and returns, running still set.
WorkerSubscribe(c, subscribed) ==
    /\ dlq_worker[c].pc = "subscribe"
    /\ dlq_worker' = [dlq_worker EXCEPT ![c] =
                         IF subscribed THEN WhileRunning
                         ELSE [pc |-> "returned", batch |-> <<>>]]
    /\ UNCHANGED <<dlq_stream, dlq_messages, running>>
    /\ UNCHANGED <<ctlVars, httpVars, cbVars, authVars, pubVars, migVars>>

\* The Msg objects of a delivery of the sequence numbers seqs, in stream
\* order, each with the delivery count the stream holds after it.
Msgs(seqs, stream) ==
    LET order == InOrder(seqs) IN
    [i \in DOMAIN order |->
        Msg(order[i], stream[order[i]].message, stream[order[i]].num_delivered)]

\* msgs = await sub.fetch(batch=10, timeout=5) returns what the consumer
\* delivers: the messages that are due, each counted as delivered once more
\* and outstanding from then on.  running is not read again before the batch
\* is done with.
WorkerFetch(c) ==
    /\ dlq_worker[c].pc = "fetch"
    /\ LET delivered == Deliverable
           stream == [k \in DOMAIN dlq_stream |->
                         IF k \in delivered
                         THEN [dlq_stream[k] EXCEPT !.num_delivered = @ + 1,
                                                    !.outstanding = TRUE]
                         ELSE dlq_stream[k]]
       IN  /\ delivered # {}
           /\ dlq_stream' = stream
           /\ dlq_worker' = [dlq_worker EXCEPT
                                ![c] = NextInBatch(Msgs(delivered, stream))]
    /\ UNCHANGED <<dlq_messages, running>>
    /\ UNCHANGED <<ctlVars, httpVars, cbVars, authVars, pubVars, migVars>>

\* What follows the INSERT of process_dlq_message up to the next await.
AfterInsert(msg, inserted) ==
    IF inserted /\ MentionsEscalation(ReplaceDlqOnce(msg.message.subject))
    THEN "alert" ELSE "ack"

\* process_dlq_message: the INSERT INTO dlq_messages; its exception is logged
\* and swallowed by the except clause of process_dlq_message.  The row gets
\* the next value of the sequence behind id: rows are never deleted, so the
\* number of rows plus one is a value no row has.
WorkerInsert(c, inserted) ==
    /\ dlq_worker[c].pc = "insert"
    /\ LET msg == Head(dlq_worker[c].batch)
           id == BagCardinality(dlq_messages) + 1
       IN
        /\ dlq_messages' = IF inserted
                           THEN dlq_messages (+)
                                SetToBag({DlqRow(id, DLQRecord(msg))})
                           ELSE dlq_messages
        /\ dlq_worker' = [dlq_worker EXCEPT ![c].pc = AfterInsert(msg, inserted)]
    /\ UNCHANGED <<dlq_stream, running>>
    /\ UNCHANGED <<ctlVars, httpVars, cbVars, authVars, pubVars, migVars>>

\* data[:200]
Preview(data) == SubSeq(data, 1, IF Len(data) < 200 THEN Len(data) ELSE 200)

\* alert_msg of _send_critical_alert
AlertMsg(subject, data) ==
    [severity |-> "critical", subject |-> subject, timestamp |-> "utcnow",
     message |-> "Critical message failed: " \o subject,
     data_preview |-> Preview(data)]

\* _send_critical_alert: await self.nc.publish("alerts.critical",
\* json.dumps(alert_msg).encode()), no headers; its exception is logged and
\* swallowed.  The worker's publishes are entered in nc_sent by 0.
WorkerAlert(c, sent) ==
    /\ dlq_worker[c].pc = "alert"
    /\ LET msg == Head(dlq_worker[c].batch) IN
        nc_sent' = Append(nc_sent,
            [message |-> Message("alerts.critical",
                                 JsonDumps(AlertMsg(ReplaceDlqOnce(msg.message.subject),
                                     CHOOSE text \in Decoded[msg.message.data] : TRUE)),
                                 {}),
             by |-> 0, delivered |-> sent])
    /\ dlq_worker' = [dlq_worker EXCEPT ![c].pc = "ack"]
    /\ UNCHANGED <<dlq_stream, dlq_messages, running>>
    /\ UNCHANGED <<publish, publish_started, js_stream>>
    /\ UNCHANGED <<ctlVars, httpVars, cbVars, authVars, migVars>>

\* await msg.ack(): the consumer takes the sequence number off its pending
\* list.  When it raises, the except clause of start sleeps (5 s) and the
\* while loop goes on, the rest of the batch unprocessed.
WorkerAck(c, acked) ==
    /\ dlq_worker[c].pc = "ack"
    /\ LET k == Head(dlq_worker[c].batch).seq IN
        IF acked
        THEN /\ dlq_stream' = [dlq_stream EXCEPT ![k].acked = TRUE,
                                                 ![k].outstanding = FALSE]
             /\ dlq_worker' = [dlq_worker EXCEPT
                                  ![c] = NextInBatch(Tail(dlq_worker[c].batch))]
        ELSE /\ dlq_worker' = [dlq_worker EXCEPT
                                  ![c] = [pc |-> "sleep", batch |-> <<>>]]
             /\ UNCHANGED dlq_stream
    /\ UNCHANGED <<dlq_messages, running>>
    /\ UNCHANGED <<ctlVars, httpVars, cbVars, authVars, pubVars, migVars>>

\* A message routed to the DLQ arrives on the stream.
DlqArrives(message) ==
    /\ Len(dlq_stream) < MaxDlqMessages
    /\ dlq_stream' = Append(dlq_stream, Stored(message, 0, FALSE, FALSE))
    /\ UNCHANGED <<dlq_messages, dlq_worker, running>>
    /\ UNCHANGED <<ctlVars, httpVars, cbVars, authVars, pubVars, migVars>>

\* The ack_wait (30 s, the default of the consumer pull_subscribe creates) of
\* a delivered message is over without an ack: the consumer delivers the
\* message again to the next fetch.
AckWaitExpires(k) ==
    /\ k \in DOMAIN dlq_stream
    /\ dlq_stream[k].outstanding
    /\ dlq_stream' = [dlq_stream EXCEPT ![k].outstanding = FALSE]
    /\ UNCHANGED <<dlq_messages, dlq_worker, running>>
    /\ UNCHANGED <<ctlVars, httpVars, cbVars, authVars, pubVars, migVars>>

\* sub.fetch raises: nats.errors.TimeoutError when nothing was delivered within
\* the timeout, or any other Exception; both except clauses of start sleep
\* (1 s and 5 s, durations not modelled).
FetchErrors == {"TimeoutError", "Exception"}

WorkerFetchRaises(c, error) ==
    /\ dlq_worker[c].pc = "fetch"
    /\ error = "TimeoutError" => Deliverable = {}
    /\ dlq_worker' = [dlq_worker EXCEPT ![c] = [pc |-> "sleep", batch |-> <<>>]]
    /\ UNCHANGED <<dlq_stream, dlq_messages, running>>
    /\ UNCHANGED <<ctlVars, httpVars, cbVars, authVars, pubVars, migVars>>

WorkerSleepMutant(c) ==
    /\ dlq_worker[c].pc = "sleep"
    /\ dlq_worker' = [dlq_worker EXCEPT ![c].pc = "returned"]
    /\ UNCHANGED <<dlq_stream, dlq_messages, running>>
    /\ UNCHANGED <<ctlVars, httpVars, cbVars, authVars, pubVars, migVars>>

\* await asyncio.sleep(...) returns: back to the test of the while loop.
WorkerSleep(c) ==
    /\ dlq_worker[c].pc = "sleep"
    /\ dlq_worker' = [dlq_worker EXCEPT ![c] = WhileRunning]
    /\ UNCHANGED <<dlq_stream, dlq_messages, running>>
    /\ UNCHANGED <<ctlVars, httpVars, cbVars, authVars, pubVars, migVars>>

\* stop(): self.running = False.
WorkerStop ==
    /\ running' = FALSE
    /\ UNCHANGED <<dlq_stream, dlq_messages, dlq_worker>>
    /\ UNCHANGED <<ctlVars, httpVars, cbVars, authVars, pubVars, migVars>>

\* The steps of the coroutine of call c after its first await, but for the
\* alert.
WorkerStep(c) ==
    \/ \E subscribed \in BOOLEAN : WorkerSubscribe(c, subscribed)
    \/ WorkerFetch(c)
    \/ \E error \in FetchErrors : WorkerFetchRaises(c, error)
    \/ \E inserted \in BOOLEAN : WorkerInsert(c, inserted)
    \/ \E acked \in BOOLEAN : WorkerAck(c, acked)
    \/ WorkerSleep(c)

NextDlq ==
    \/ \E m \in DlqArrivals : DlqArrives(m)
    \/ \E k \in 1..MaxDlqMessages : AckWaitExpires(k)
    \/ \E c \in StartCalls : WorkerStart(c)
    \/ \E c \in StartCalls, subscribed \in BOOLEAN : WorkerSubscribe(c, subscribed)
    \/ \E c \in StartCalls : WorkerFetch(c)
    \/ \E c \in StartCalls, error \in FetchErrors : WorkerFetchRaises(c, error)
    \/ \E c \in StartCalls, inserted \in BOOLEAN : WorkerInsert(c, inserted)
    \/ \E c \in StartCalls, sent \in BOOLEAN : WorkerAlert(c, sent)
    \/ \E c \in StartCalls, acked \in BOOLEAN : WorkerAck(c, acked)
    \/ \E c \in StartCalls : WorkerSleep(c)
    \/ WorkerStop

\* The worker's loop with start() and stop(), the worker started again only
\* after it has returned, over up to MaxLoopMessages messages of a subject
\* that raises no alert (the alert is one more await between the INSERT and
\* the ack, its exception swallowed; the loop treats every subject alike
\* otherwise).
LoopArrivals ==
    {m \in DlqArrivals : ~MentionsEscalation(ReplaceDlqOnce(m.subject))}

\* start() called while no earlier call's coroutine is alive.
StartInTurn(c) ==
    /\ \A d \in StartCalls : dlq_worker[d].pc \in {"idle", "returned"}
    /\ WorkerStart(c)

NextDlqLoop ==
    \/ \E m \in LoopArrivals : Len(dlq_stream) < MaxLoopMessages /\ DlqArrives(m)
    \/ \E k \in 1..MaxDlqMessages : AckWaitExpires(k)
    \/ \E c \in StartCalls : StartInTurn(c)
    \/ \E c \in StartCalls : WorkerStep(c)
    \/ WorkerStop

\* Every subscribe, fetch, insert, ack and sleep returns: a coroutine is
\* resumed as long as it has a step to take.
DlqFairness == \A c \in StartCalls : WF_vars(WorkerStep(c))

\* --------------------------------------------------------- migration runner

\* extract_version of the file names, in the order sorted() gives the names,
\* and calculate_checksum of the file contents.
Versions == <<"001", "002">>
Checksums == {"sha-a", "sha-b"}

\* A row of schema_migrations, and a file of the directory: readable tells
\* whether sql_file.read_text() returns the content or raises (OSError,
\* UnicodeDecodeError).
Row(version, checksum) == [version |-> version, checksum |-> checksum]
SqlFile(version, checksum, readable) ==
    [version |-> version, checksum |-> checksum, readable |-> readable]

\* Directory listings: names sort by their version prefix, so files of one
\* version are neighbours and versions never go back.
SortedListings ==
    {fs \in UNION {[1..n -> {SqlFile(Versions[v], c, readable) :
                                 v \in DOMAIN Versions, c \in Checksums,
                                 readable \in BOOLEAN}]
                     : n \in 0..MaxFiles} :
        \A i, j \in DOMAIN fs :
            i < j => \E v, w \in DOMAIN Versions :
                        v <= w /\ fs[i].version = Versions[v]
                               /\ fs[j].version = Versions[w]}

\* Contents of schema_migrations: at most one row per version.
MigrationTables ==
    {t \in SUBSET {Row(Versions[v], c) : v \in DOMAIN Versions, c \in Checksums} :
        \A r, s \in t : r.version = s.version => r = s}

IdleMigrate ==
    [pc |-> "idle", index |-> 1, applied_dict |-> {}, success_count |-> 0,
     skipped_count |-> 0, failed_count |-> 0, exit_code |-> {}]

InitMigrateIdle ==
    /\ sql_files = <<>>
    /\ schema_migrations = {}
    /\ migrate = IdleMigrate

\* stored_checksum == checksum
ChecksumMatchesMutant(stored_checksum, checksum) == TRUE
ChecksumMatches(stored_checksum, checksum) == stored_checksum = checksum

\* An exception leaves run_migrations outside every try block: asyncio.run
\* raises it, the script ends by traceback with exit status 1, without the
\* counters, conn.close(), the summary or a returned exit code.
Uncaught(f) == [f EXCEPT !.pc = "raised", !.exit_code = {1}]

\* The for loop from file f.index up to its next await: sql_file.read_text()
\* stands before the try block, so a file that cannot be read ends the run;
\* files whose version is in applied_dict with the same checksum are skipped,
\* a different checksum breaks the loop, any other file goes to its
\* transaction.
RECURSIVE ForLoop(_)
ForLoop(f) ==
    IF f.index > Len(sql_files) THEN [f EXCEPT !.pc = "close"]
    ELSE LET file == sql_files[f.index]
             stored == {r \in f.applied_dict : r.version = file.version}
         IN  IF ~file.readable THEN Uncaught(f)
             ELSE IF stored = {} THEN [f EXCEPT !.pc = "execute"]
             ELSE IF ChecksumMatches((CHOOSE r \in stored : TRUE).checksum,
                                     file.checksum)
             THEN ForLoop([f EXCEPT !.skipped_count = @ + 1,
                                     !.success_count = @ + 1,
                                     !.index = @ + 1])
             ELSE [f EXCEPT !.failed_count = @ + 1, !.pc = "close"]

\* What stops run_migrations before it lists the directory: DATABASE_URL is
\* not set, asyncpg.connect raises, or the migrations directory does not
\* exist (the connection is closed first); each ends in sys.exit(1).
StartFailures ==
    {"DATABASE_URL not set", "Failed to connect", "Migrations directory not found"}

\* What raises out of run_migrations before the SELECT, in no try block:
\* await ensure_schema_migrations_table(conn), and the await conn.close()
\* before sys.exit(1) (no directory) or before return 0 (no file).
StartRaises ==
    {"CREATE TABLE raises", "Migrations directory not found, close raises",
     "No migration files found, close raises"}

\* run_migrations up to the SELECT: the environment, connect, CREATE TABLE IF
\* NOT EXISTS, the directory listing; return 0 when there is no file.
StartMigrations(outcome) ==
    /\ migrate.pc = "idle"
    /\ outcome = "No migration files found, close raises" => sql_files = <<>>
    /\ migrate' = IF outcome \in StartFailures
                  THEN [migrate EXCEPT !.pc = "done", !.exit_code = {1}]
                  ELSE IF outcome \in StartRaises THEN Uncaught(migrate)
                  ELSE IF sql_files = <<>>
                  THEN [migrate EXCEPT !.pc = "done", !.exit_code = {0}]
                  ELSE [migrate EXCEPT !.pc = "fetch"]
    /\ UNCHANGED <<sql_files, schema_migrations>>
    /\ UNCHANGED <<ctlVars, httpVars, cbVars, authVars, pubVars, dlqVars>>

\* applied_migrations = await conn.fetch("SELECT version, checksum ..."),
\* in no try block.
MigrateFetch(fetched) ==
    /\ migrate.pc = "fetch"
    /\ migrate' = IF fetched
                  THEN ForLoop([migrate EXCEPT !.applied_dict = schema_migrations])
                  ELSE Uncaught(migrate)
    /\ UNCHANGED <<sql_files, schema_migrations>>
    /\ UNCHANGED <<ctlVars, httpVars, cbVars, authVars, pubVars, dlqVars>>

\* The except clause of the loop: the transaction is rolled back.
MigrationFailed(f) == [f EXCEPT !.failed_count = @ + 1, !.pc = "close"]

\* await conn.execute(sql) inside the transaction
MigrateExecute(ok) ==
    /\ migrate.pc = "execute"
    /\ migrate' = IF ok THEN [migrate EXCEPT !.pc = "insert"]
                  ELSE MigrationFailed(migrate)
    /\ UNCHANGED <<sql_files, schema_migrations>>
    /\ UNCHANGED <<ctlVars, httpVars, cbVars, authVars, pubVars, dlqVars>>

\* INSERT INTO schema_migrations (version, checksum, duration_ms) and the
\* commit; the primary key version rejects a second row of a version, and
\* the statement or the commit may fail otherwise (inserted is FALSE).
MigrateInsert(inserted) ==
    /\ migrate.pc = "insert"
    /\ LET file == sql_files[migrate.index] IN
        IF ~inserted \/ \E r \in schema_migrations : r.version = file.version
        THEN /\ migrate' = MigrationFailed(migrate)
             /\ UNCHANGED schema_migrations
        ELSE /\ schema_migrations' =
                    schema_migrations \cup {Row(file.version, file.checksum)}
             /\ migrate' = ForLoop([migrate EXCEPT !.success_count = @ + 1,
                                                   !.index = @ + 1])
    /\ UNCHANGED sql_files
    /\ UNCHANGED <<ctlVars, httpVars, cbVars, authVars, pubVars, dlqVars>>

\* await conn.close(), in no try block; the summary; return 0 if
\* failed_count == 0 else 1
MigrateClose(closed) ==
    /\ migrate.pc = "close"
    /\ migrate' = IF closed
                  THEN [migrate EXCEPT !.pc = "done",
                           !.exit_code = IF migrate.failed_count = 0 THEN {0} ELSE {1}]
                  ELSE Uncaught(migrate)
    /\ UNCHANGED <<sql_files, schema_migrations>>
    /\ UNCHANGED <<ctlVars, httpVars, cbVars, authVars, pubVars, dlqVars>>

NextMigrate ==
    \/ \E outcome \in StartFailures \cup StartRaises \cup {"listed"} :
           StartMigrations(outcome)
    \/ \E fetched \in BOOLEAN : MigrateFetch(fetched)
    \/ \E ok \in BOOLEAN : MigrateExecute(ok)
    \/ \E inserted \in BOOLEAN : MigrateInsert(inserted)
    \/ \E closed \in BOOLEAN : MigrateClose(closed)

\* ------------------------------------ routes of the DLQ and of the breakers

\* Path parameters of POST /dlq/{message_id}/resolve, as the numbers they
\* spell, and the notes of its body (DLQResolveModel.note).
MessageIds == 1..3
Notes == {"triaged", "fixed"}

StartResolveDlqMessage(c, message_id, note) ==
    /\ http[c].pc = "idle"
    /\ c = http_started + 1
    /\ http_started' = c
    /\ http' = [http EXCEPT ![c].op = "resolve_dlq_message",
                            ![c].pc = "update",
                            ![c].message_id = message_id,
                            ![c].note = note]
    /\ UNCHANGED <<kv_budget, kv_reservation, kv_reservations_set, reservations_ttl,
                   audit_log>>
    /\ UNCHANGED <<ctlVars, cbVars, authVars, opsVars>>

\* resolve_dlq_message: UPDATE dlq_messages SET resolved = TRUE,
\* resolution_notes = $2 WHERE id = $1 under db_pool.acquire(), whatever
\* resolved was and whether or not a row has the id.  An exception of
\* acquire or of execute leaves the handler (500) before log_action.
ResolveUpdate(c, executed) ==
    /\ http[c].op = "resolve_dlq_message"
    /\ http[c].pc = "update"
    /\ IF executed
       THEN /\ dlq_messages' =
                 SetToBag({IF row.id = http[c].message_id
                           THEN [row EXCEPT !.resolved = TRUE,
                                            !.resolution_notes = {http[c].note}]
                           ELSE row : row \in BagToSet(dlq_messages)})
            /\ HGoto(c, "audit")
       ELSE /\ dlq_messages' = dlq_messages
            /\ http' = [http EXCEPT ![c].pc = "returned", ![c].status = 500]
    /\ UNCHANGED <<kv_budget, kv_reservation, kv_reservations_set, reservations_ttl,
                   audit_log, http_started>>
    /\ UNCHANGED <<dlq_stream, dlq_worker, running>>
    /\ UNCHANGED <<ctlVars, cbVars, authVars, pubVars, migVars>>

\* resolve_dlq_message: await audit.log_action(action="dlq.resolve",
\* resource_id=message_id), then the return of status "resolved".
ResolveAudit(c, inserted) ==
    /\ http[c].op = "resolve_dlq_message"
    /\ http[c].pc = "audit"
    /\ LogAction("dlq.resolve", http[c].message_id, inserted)
    /\ http' = [http EXCEPT ![c].pc = "returned", ![c].status = 200]
    /\ UNCHANGED <<kv_budget, kv_reservation, kv_reservations_set, reservations_ttl,
                   http_started>>
    /\ UNCHANGED <<ctlVars, cbVars, authVars, opsVars>>

StartResetAllCircuitBreakers(c) ==
    /\ http[c].pc = "idle"
    /\ c = http_started + 1
    /\ http_started' = c
    /\ http' = [http EXCEPT ![c].op = "reset_all_circuit_breakers",
                            ![c].pc = "reset_all"]
    /\ UNCHANGED <<kv_budget, kv_reservation, kv_reservations_set, reservations_ttl,
                   audit_log>>
    /\ UNCHANGED <<ctlVars, cbVars, authVars, opsVars>>

\* reset_all_circuit_breakers: await circuit_breaker_registry.reset_all(),
\* which does not yield to the event loop, then breaker_names, the keys of
\* get_all_stats() (the names that have an entry in _breakers), and their
\* number.
ResetAllBreakers(c) ==
    /\ http[c].op = "reset_all_circuit_breakers"
    /\ http[c].pc = "reset_all"
    /\ \A b \in Registered : ~breakers[b].locked
    /\ breakers' = AfterResetAll
    /\ LET breaker_names == {name \in BreakerNames : registry[name] # {}} IN
        http' = [http EXCEPT ![c].pc = "audit",
                             ![c].breakers = breaker_names,
                             ![c].reset_count = Cardinality(breaker_names)]
    /\ UNCHANGED <<kv_budget, kv_reservation, kv_reservations_set, reservations_ttl,
                   audit_log, http_started>>
    /\ UNCHANGED <<state, failure_count, success_count, last_failure_time,
                   opened_at, half_open_calls, total_calls, total_failures,
                   total_successes, now, in_flight, last_call, last_report,
                   streak, registry>>
    /\ UNCHANGED <<ctlVars, authVars, opsVars>>

\* reset_all_circuit_breakers: await audit.log_action(
\* action="breakers.reset_all", resource_id="all"), then the return of
\* status "success".
ResetAllAudit(c, inserted) ==
    /\ http[c].op = "reset_all_circuit_breakers"
    /\ http[c].pc = "audit"
    /\ LogAction("breakers.reset_all", "all", inserted)
    /\ http' = [http EXCEPT ![c].pc = "returned", ![c].status = 200]
    /\ UNCHANGED <<kv_budget, kv_reservation, kv_reservations_set, reservations_ttl,
                   http_started>>
    /\ UNCHANGED <<ctlVars, cbVars, authVars, opsVars>>

ResolveDlqMessageInTurn(c, message_id, note) ==
    HttpInFlight = {} /\ StartResolveDlqMessage(c, message_id, note)

ResetAllCircuitBreakersInTurn(c) ==
    HttpInFlight = {} /\ StartResetAllCircuitBreakers(c)

\* The handlers that write to audit_log, called one at a time.
NextAudit ==
    \/ \E c \in HttpCalls : BudgetRequestInTurn(c, 1)
    \/ \E c \in HttpCalls, i \in ReservationIds : BudgetCommitInTurn(c, i, 1)
    \/ \E c \in HttpCalls, i \in ReservationIds : BudgetReleaseInTurn(c, i)
    \/ \E c \in HttpCalls, m \in MessageIds, note \in Notes :
          ResolveDlqMessageInTurn(c, m, note)
    \/ \E c \in HttpCalls : ResetAllCircuitBreakersInTurn(c)
    \/ \E c \in HttpCalls : RequestSelectLimit(c)
    \/ \E c \in HttpCalls : RequestGetUsed(c)
    \/ \E c \in HttpCalls : RequestSmembers(c)
    \/ \E c \in HttpCalls, i \in ReservationIds : RequestGetReservation(c, i)
    \/ \E c \in HttpCalls : RequestSetex(c)
    \/ \E c \in HttpCalls : RequestSadd(c)
    \/ \E c \in HttpCalls : RequestExpire(c)
    \/ \E c \in HttpCalls : CommitGetReservation(c)
    \/ \E c \in HttpCalls : CommitIncrby(c)
    \/ \E c \in HttpCalls : CommitDelete(c)
    \/ \E c \in HttpCalls : CommitSrem(c)
    \/ \E c \in HttpCalls, inserted \in BOOLEAN : CommitAudit(c, inserted)
    \/ \E c \in HttpCalls : ReleaseDelete(c)
    \/ \E c \in HttpCalls : ReleaseSrem(c)
    \/ \E c \in HttpCalls, inserted \in BOOLEAN : ReleaseAudit(c, inserted)
    \/ \E c \in HttpCalls, executed \in BOOLEAN : ResolveUpdate(c, executed)
    \/ \E c \in HttpCalls, inserted \in BOOLEAN : ResolveAudit(c, inserted)
    \/ \E c \in HttpCalls : ResetAllBreakers(c)
    \/ \E c \in HttpCalls, inserted \in BOOLEAN : ResetAllAudit(c, inserted)

\* ----------------------------------------------------------- specifications

InitAuth ==
    /\ login_username = "admin"
    /\ InitLoginKeys
    /\ InitRbac

InitOps ==
    /\ InitPub
    /\ InitDlqWorker
    /\ InitMigrateIdle

Init == InitCtl /\ InitHttp /\ InitCB /\ InitAuth /\ InitOps

\* The login handler serves a demo user or a name DEMO_USERS does not hold;
\* the lock key is absent, or earlier logins have left it at the threshold
\* with its TTL just set.
InitLogin ==
    /\ InitCtl /\ InitHttp /\ InitCB /\ InitRbac /\ InitOps
    /\ login_username \in LoginUsernames
    /\ login_counter \in {{}, {LockKey(LoginMaxAttempts, {LockoutWindow})}}
    /\ login = [c \in LoginCalls |-> IdleLogin]
    /\ login_started = 0

\* The handlers run against a provisioned budget_limits row, of the smallest
\* or of the default limit, or against none.
ProvisionedLimits == {1, TotalLimit}

InitProvisioned ==
    /\ budget_limits \in {{}} \cup {{LimitRow(t, 0, 0)} : t \in ProvisionedLimits}
    /\ InitCtlKeys /\ InitHttp /\ InitCB /\ InitAuth /\ InitOps

SpecCtl == Init /\ [][NextCtl]_vars

SpecCtlFair == Init /\ [][NextCtl]_vars /\ CtlFairness

SpecCtlTtl == Init /\ [][NextCtlTtl]_vars

SpecDlqFair == Init /\ [][NextDlqLoop]_vars /\ DlqFairness

\* The controller on a fresh (tenant, project), or on one whose row holds a
\* reservation of an earlier request_tokens call whose Redis keys (TTL 300 s)
\* have expired since.
InitInUse ==
    /\ budget_limits \in {{}, {LimitRow(TotalLimit, 0, MaxAmount)}}
    /\ budget_transactions =
           IF budget_limits = {} THEN EmptyBag
           ELSE SetToBag({TxRow("reserve", "r0", MaxAmount)})
    /\ redis_req = {}
    /\ redis_ttl = NoTtl
    /\ redis_result = [r \in RequestIds |-> {}]
    /\ redis_state = {}
    /\ ctl = [c \in CtlCalls |-> IdleFrame]
    /\ ctl_started = 0
    /\ InitHttp /\ InitCB /\ InitAuth /\ InitOps

\* A caller issues request_tokens once every earlier call has ended and no
\* other call follows: the call runs alone.  Its frame takes the place of the
\* frame of the first call, which is gone.
StartRequestAlone(rid, n) ==
    /\ ctl_started = MaxCtlCalls
    /\ \A c \in CtlCalls : ctl[c].pc \in {"returned", "raised", "cancelled"}
    /\ ctl_started' = MaxCtlCalls + 1
    /\ ctl' = [ctl EXCEPT ![1] = [IdleFrame EXCEPT !.op = "request_tokens",
                  !.pc = "setnx", !.request_id = rid, !.amount = n,
                  !.late = (redis_result[rid] # {})]]
    /\ UNCHANGED <<budget_limits, budget_transactions, redis_req, redis_result,
                   redis_state,
                   redis_ttl>>
    /\ UNCHANGED <<httpVars, cbVars, authVars, opsVars>>

NextCtlAlone ==
    \/ NextCtl
    \/ \E rid \in RequestIds, n \in Amounts : StartRequestAlone(rid, n)

SpecCtlAlone == InitInUse /\ [][NextCtlAlone]_vars

\* The controller with statements that raise and tasks that are cancelled.
SpecCtlFaults == Init /\ [][NextCtlFaults]_vars

SpecHttp == InitProvisioned /\ [][NextHttp]_vars

SpecHttpInTurn == InitProvisioned /\ [][NextHttpInTurn]_vars

SpecHttpWrites == InitProvisioned /\ [][NextHttpWrites]_vars

\* What a DLQWorker leaves that was started, has processed and acknowledged
\* the messages that two timed-out publishes on prc.s1.response had routed
\* to the DLQ stream, and was stopped: stream, table and frames.
RoutedMessage ==
    Message(DlqSubject("prc.s1.response"), <<100, 97, 116, 97>>,
            DlqHeaders("prc.s1.response", {}, "timeout"))

ProcessedStream == [k \in 1..2 |-> Stored(RoutedMessage, 1, TRUE, FALSE)]

ProcessedTable ==
    SetToBag({DlqRow(k, DLQRecord(Msg(k, RoutedMessage, 1))) : k \in 1..2})

WorkerReturned ==
    [c \in StartCalls |-> IF c = 1 THEN [pc |-> "returned", batch |-> <<>>]
                          ELSE IdleWorker]

\* The breaker object registered as "llm" after FailureThreshold calls on it
\* have failed at time 1, the other object untouched.
OpenedBreaker ==
    [NewBreaker EXCEPT !.state = "open", !.failure_count = FailureThreshold,
                       !.last_failure_time = {1}, !.opened_at = {1},
                       !.total_calls = FailureThreshold]

\* The handlers that write to audit_log run against a provisioned
\* budget_limits row; the DLQ table is empty or holds the rows of the two
\* processed messages; the registry is empty or holds the opened breaker.
InitAudit ==
    /\ budget_limits = {LimitRow(TotalLimit, 0, 0)}
    /\ InitCtlKeys /\ InitHttp /\ InitBreaker /\ InitAuth
    /\ InitPub /\ InitMigrateIdle
    /\ \/ InitDlqWorker
       \/ /\ dlq_stream = ProcessedStream
          /\ dlq_messages = ProcessedTable
          /\ dlq_worker = WorkerReturned
          /\ running = FALSE
    /\ \/ /\ breakers = [b \in BreakerObjects |-> NewBreaker]
          /\ registry = [name \in BreakerNames |-> {}]
       \/ /\ breakers = [b \in BreakerObjects |->
                            IF b = "b1" THEN OpenedBreaker ELSE NewBreaker]
          /\ registry = [name \in BreakerNames |->
                            IF name = "llm" THEN {"b1"} ELSE {}]

SpecAudit == InitAudit /\ [][NextAudit]_vars

SpecCB == Init /\ [][NextCB]_vars

SpecCBInTurn == Init /\ [][NextCBInTurn]_vars

SpecRegistry == Init /\ [][NextRegistry]_vars


SpecLogin == InitLogin /\ [][NextLogin]_vars

SpecRbac == Init /\ [][NextRbac]_vars

\* run_migrations against any sorted listing and any earlier contents of
\* schema_migrations.
InitMigrate ==
    /\ InitCtl /\ InitHttp /\ InitCB /\ InitAuth /\ InitPub /\ InitDlqWorker
    /\ sql_files \in SortedListings
    /\ schema_migrations \in MigrationTables
    /\ migrate = IdleMigrate

SpecMigrate == InitMigrate /\ [][NextMigrate]_vars

SpecPub == Init /\ [][NextPub]_vars

SpecDlq == Init /\ [][NextDlq]_vars

\* ------------------------------------------------------------------ claims

RECURSIVE SumCopies(_)
SumCopies(rows) ==
    IF rows = {} THEN 0
    ELSE LET t == CHOOSE x \in rows : TRUE
         IN  CopiesIn(t, budget_transactions) + SumCopies(rows \ {t})

\* Number of rows of one type that budget_transactions holds for a request id.
TxRowCount(type, rid) ==
    SumCopies({t \in BagToSet(budget_transactions) :
                   t.type = type /\ t.request_id = rid})

RequestCalls == {c \in CtlCalls : ctl[c].op = "request_tokens"}

Returned(c) == ctl[c].pc = "returned"

\* The labels of a request_tokens call that won the SETNX and has not yet
\* returned or raised.
AllocationPcs ==
    {"get_cache", "db_select", "db_insert", "cache_setex", "reserve_update",
     "reserve_insert", "reserve_invalidate", "setex_result", "except_delete"}

\* C1: Ledger safety.  In every reachable state of the controller, whatever
\* the interleaving of request_tokens, commit_usage and release_reservation,
\* current_usage + reserved <= total_limit on the budget_limits row.
LedgerSafety ==
    \A r \in budget_limits : r.current_usage + r.reserved <= r.total_limit

\* C1 witness: tokens are reserved, and a concurrent request that had passed
\* the availability check was refused by the conditional UPDATE.
LedgerSafetyWitness ==
    /\ \E r \in budget_limits : r.reserved > 0
    /\ \E c \in RequestCalls :
          ctl[c].decision = {ReservationFailed(ctl[c].request_id)}

\* The request ids none of whose keys has expired: the calls made for them
\* ran and came within the lifetime of the envelope.
WithinLifetime == RequestIds \ redis_ttl.lapsed

\* A returned call that was answered with a decision of its request, not
\* with the documented duplicate_request_in_progress of a call that met the
\* envelope of a request still being processed.
Decided(c) ==
    /\ Returned(c)
    /\ ctl[c].decision # {DuplicateInProgress(ctl[c].request_id)}

\* C3: Idempotency of request.  Within the lifetime of the envelope, any two
\* request_tokens calls with the same request id that returned a decision of
\* the request carry equal decisions, and budget_transactions holds exactly
\* one reserve row for the request id of an approved decision and never more
\* than one for any request id.
RequestIdempotency ==
    /\ \A c1, c2 \in RequestCalls :
          (/\ Decided(c1) /\ Decided(c2)
           /\ ctl[c1].request_id = ctl[c2].request_id
           /\ ctl[c1].request_id \in WithinLifetime)
          => ctl[c1].decision = ctl[c2].decision
    /\ \A c \in RequestCalls :
          (Decided(c) /\ ctl[c].request_id \in WithinLifetime)
          => /\ TxRowCount("reserve", ctl[c].request_id) <= 1
             /\ \A d \in ctl[c].decision :
                   d.approved => TxRowCount("reserve", ctl[c].request_id) = 1

\* C4: Envelope mutual exclusion.  For each request id at most one call is
\* between winning the SETNX and returning; a call that lost the SETNX
\* returns the cached decision or duplicate_request_in_progress, and its
\* steps write neither budget_limits, budget_transactions nor the state cache.
EnvelopeHolders(rid) ==
    {c \in RequestCalls : ctl[c].request_id = rid /\ ctl[c].pc \in AllocationPcs}

EnvelopeState ==
    /\ \A rid \in RequestIds : Cardinality(EnvelopeHolders(rid)) <= 1
    /\ \A c \in RequestCalls :
          (Returned(c) /\ ~ctl[c].was_new) =>
             \/ ctl[c].decision = redis_result[ctl[c].request_id]
             \/ ctl[c].decision = {DuplicateInProgress(ctl[c].request_id)}

EnvelopeMutualExclusion ==
    [][/\ EnvelopeState
       /\ EnvelopeState'
       /\ \A c \in CtlCalls :
             (ctl[c].pc = "get_result" /\ ctl'[c] # ctl[c])
             => UNCHANGED <<budget_limits, budget_transactions, redis_state,
                            redis_result, redis_req,
                   redis_ttl>>]_vars

\* C4 amended: for each request id whose envelope has not expired, at most
\* one call is between winning the SETNX and returning, and a call that lost
\* the SETNX returned the cached decision or duplicate_request_in_progress;
\* the steps of a call that lost the SETNX write neither budget_limits,
\* budget_transactions, the state cache nor the keys of the request id.
EnvelopeStateWithinLifetime ==
    /\ \A rid \in WithinLifetime : Cardinality(EnvelopeHolders(rid)) <= 1
    /\ \A c \in RequestCalls :
          (Returned(c) /\ ~ctl[c].was_new /\ ctl[c].request_id \in WithinLifetime) =>
             \/ ctl[c].decision = redis_result[ctl[c].request_id]
             \/ ctl[c].decision = {DuplicateInProgress(ctl[c].request_id)}

EnvelopeMutualExclusionWithinLifetime ==
    [][/\ EnvelopeStateWithinLifetime
       /\ EnvelopeStateWithinLifetime'
       /\ \A c \in CtlCalls :
             (ctl[c].pc = "get_result" /\ ctl'[c] # ctl[c])
             => UNCHANGED <<budget_limits, budget_transactions, redis_state,
                            redis_result, redis_req>>]_vars

\* C4 witness: two calls with one request id, one holding the envelope in the
\* allocation, the other returned with duplicate_request_in_progress.
EnvelopeMutualExclusionWitness ==
    \E c1, c2 \in RequestCalls :
        /\ ctl[c1].request_id = ctl[c2].request_id
        /\ ctl[c1].was_new /\ ctl[c1].pc = "reserve_insert"
        /\ Returned(c2) /\ ~ctl[c2].was_new
        /\ ctl[c2].decision = {DuplicateInProgress(ctl[c2].request_id)}

SettleCalls ==
    {c \in CtlCalls : ctl[c].op \in {"commit_usage", "release_reservation"}}

\* C6: No negative balances.  reserved >= 0 and current_usage >= 0 on the
\* budget_limits row; stated for the runs in which every commit_usage and
\* release_reservation was issued for a reservation its caller held, with any
\* amount.
NoNegativeBalances ==
    (\A c \in SettleCalls : ctl[c].held)
    => \A r \in budget_limits : r.reserved >= 0 /\ r.current_usage >= 0

\* A reservation is Held when it has its reserve row and neither a commit nor
\* a release row; ReservedAmount is the amount of the reserve row.
Held(rid) ==
    /\ TxRowCount("reserve", rid) = 1
    /\ TxRowCount("commit", rid) = 0
    /\ TxRowCount("release", rid) = 0

ReservedAmount(rid) ==
    (CHOOSE t \in BagToSet(budget_transactions) :
         t.type = "reserve" /\ t.request_id = rid).amount

\* C7: Commit conservation.  The UPDATE of a commit of a Held reservation
\* (one its caller held when the commit was issued) lowers reserved by the
\* amount that reservation reserved and raises current_usage by the actual
\* tokens.
CommitConservation ==
    [][\A c \in CtlCalls :
          (/\ ctl[c].pc = "commit_update"
           /\ ctl'[c].pc = "commit_insert"
           /\ ctl[c].held
           /\ Held(ctl[c].request_id))
          => \A r \in budget_limits : \A q \in budget_limits' :
                /\ q.reserved = r.reserved - ReservedAmount(ctl[c].request_id)
                /\ q.current_usage = r.current_usage + ctl[c].amount]_vars

\* Sum of the tokens of the reservation keys that exist.
RECURSIVE SumTokens(_)
SumTokens(ids) ==
    IF ids = {} THEN 0
    ELSE LET i == CHOOSE x \in ids : TRUE
         IN  TokensOf(i) + SumTokens(ids \ {i})

LiveReserved == SumTokens({i \in ReservationIds : kv_reservation[i] # {}})

\* C2: Budget safety at the HTTP handlers.  used + reserved <= total_limit in
\* every reachable state, used being the Redis counter and reserved the sum
\* of the live reservation entries.
HttpBudgetSafety == UsedCounter + LiveReserved <= SelectedLimit

\* C5: Exactly-once commit.  For each reservation id at most one budget_commit
\* call has incremented the used counter.
CommitsApplied(i) ==
    {c \in HttpCalls :
        /\ http[c].op = "budget_commit"
        /\ http[c].reservation_id = i
        /\ \/ http[c].pc \in {"delete", "srem", "audit"}
           \/ http[c].pc = "returned" /\ http[c].status = 200}

ExactlyOnceCommit ==
    \A i \in ReservationIds : Cardinality(CommitsApplied(i)) <= 1

\* C8: Breaker monotonicity within Closed.  Whenever the breaker is Closed,
\* failure_count <= failure_threshold.
ClosedFailureBound ==
    state = "closed" => failure_count <= FailureThreshold

\* C8 witness: a Closed breaker one failure short of the threshold while
\* calls are still in flight.
ClosedFailureBoundWitness ==
    /\ state = "closed"
    /\ failure_count > 0
    /\ failure_count = FailureThreshold - 1
    /\ in_flight["closed"] >= 2
    /\ total_failures > failure_count

\* Less than recovery_timeout has passed since the last recorded failure.
WithinRecovery ==
    /\ last_failure_time # {}
    /\ now - (CHOOSE t \in last_failure_time : TRUE) < RecoveryTimeout

\* C9: Open rejects.  An Open breaker has a recorded last failure, and a
\* call() made while it is Open and less than recovery_timeout has passed
\* since that failure raises CircuitOpenException, starts no wrapped function
\* and leaves the breaker Open.
OpenRejects ==
    [][/\ state = "open" => last_failure_time # {}
       /\ (state = "open" /\ WithinRecovery /\ total_calls' = total_calls + 1)
          => /\ last_call' = "CircuitOpenException"
             /\ in_flight' = in_flight
             /\ state' = "open"]_vars

\* C9 witness: the latest call() was rejected by a breaker that is Open and
\* within its recovery timeout, with earlier calls still in flight.
OpenRejectsWitness ==
    /\ state = "open"
    /\ WithinRecovery
    /\ last_call = "CircuitOpenException"
    /\ InFlightTotal > 0

\* C10: Half-open admission bound.  The number of calls admitted in HalfOpen
\* whose wrapped function is still running is at most half_open_max_calls.
HalfOpenAdmissionBound == in_flight["half_open"] <= HalfOpenMaxCalls

\* A step that is a report of the wrapped function's outcome.
SuccessReported == total_successes' = total_successes + 1

FailureReported == total_failures' = total_failures + 1

CallMade == total_calls' = total_calls + 1

\* C11: Half-open probe outcome.  A success reported while the breaker is
\* HalfOpen leaves it Closed with failure_count, success_count and
\* half_open_calls all 0; a failure reported while it is HalfOpen leaves it
\* Open with opened_at set to the time of the report.
HalfOpenProbeOutcome ==
    [][/\ (state = "half_open" /\ SuccessReported)
          => /\ state' = "closed"
             /\ failure_count' = 0
             /\ success_count' = 0
             /\ half_open_calls' = 0
       /\ (state = "half_open" /\ FailureReported)
          => /\ state' = "open"
             /\ opened_at' = {now}]_vars

\* C11 witness: a probe admitted in HalfOpen failed while the breaker was
\* HalfOpen, on a later tick than the failure that opened it first.
HalfOpenProbeOutcomeWitness ==
    /\ last_report = [kind |-> "failure", met |-> "half_open", admitted |-> "half_open"]
    /\ state = "open"
    /\ opened_at = {now}
    /\ now > RecoveryTimeout
    /\ total_successes > 0

\* C12: Closed-state trip rule.  With calls issued one at a time, a Closed
\* breaker has failure_count equal to the failures reported since the last
\* success; a failure report opens it (recording opened_at) exactly when
\* that number reaches failure_threshold, and a success report leaves it
\* Closed with failure_count 0.
ClosedTripRule ==
    [][/\ state = "closed" => failure_count = streak /\ streak < FailureThreshold
       /\ (state = "closed" /\ FailureReported)
          => /\ (state' = "open") <=> (streak' = FailureThreshold)
             /\ state' \in {"open", "closed"}
             /\ state' = "open" => opened_at' = {now}
             /\ state' = "closed" => opened_at' = {}
       /\ (state = "closed" /\ SuccessReported)
          => /\ state' = "closed"
             /\ failure_count' = 0]_vars

\* C12 witness: fewer than failure_threshold failures followed by a success
\* left the breaker Closed with failure_count 0, after an earlier trip.
ClosedTripRuleWitness ==
    /\ state = "closed"
    /\ last_report = [kind |-> "success", met |-> "closed", admitted |-> "closed"]
    /\ failure_count = 0
    /\ total_failures > FailureThreshold
    /\ InFlightTotal = 0

\* The recovery timeout has elapsed since the last recorded failure.
RecoveryElapsed ==
    /\ last_failure_time # {}
    /\ now - (CHOOSE t \in last_failure_time : TRUE) >= RecoveryTimeout

\* C13: Recovery.  A call() made while the breaker is Open and at least
\* recovery_timeout has elapsed since last_failure_time moves it to HalfOpen,
\* counts itself as the first probe of the episode and invokes the wrapped
\* function.
Recovery ==
    [][(state = "open" /\ RecoveryElapsed /\ CallMade)
          => /\ state' = "half_open"
             /\ half_open_calls' = 1
             /\ in_flight' = [in_flight EXCEPT !["half_open"] = @ + 1]
             /\ last_call' = "invoked"]_vars

\* C13 witness: a second recovery: the call was admitted as the only probe
\* counted, after an earlier HalfOpen episode ended with a failure.
RecoveryWitness ==
    /\ state = "half_open"
    /\ half_open_calls = 1
    /\ last_call = "invoked"
    /\ last_report.kind = "failure" /\ last_report.met = "half_open"
    /\ in_flight["half_open"] >= 1

LoginReturned(c) == login[c].pc = "returned"

\* Step of login call c: its frame changes.
LoginStep(c) == login'[c] # login[c]

\* C14: Lockout threshold.  INCR hands a login the number of attempts made on
\* the key since it last came into being; a login whose credentials are not
\* valid is answered 401 when that number is at most the threshold and 429
\* when it is above it.
LockoutThreshold ==
    [][/\ \A c \in LoginCalls :
             (login[c].pc = "incr" /\ LoginStep(c) /\ login'[c].pc # "cancelled")
             => login'[c].attempts = CounterValue + 1
       /\ \A c \in LoginCalls :
             (LoginStep(c) /\ LoginReturned(c)'
              /\ (~login[c].password_ok \/ login_username \notin DemoUsers))
             => /\ login'[c].attempts <= LoginMaxAttempts => login'[c].status = 401
                /\ login'[c].attempts > LoginMaxAttempts => login'[c].status = 429]_vars

\* C14 witness: with wrong passwords for a demo user, the attempt that
\* reached the threshold got 401 and the next one got 429.
LockoutThresholdWitness ==
    /\ login_username \in DemoUsers
    /\ \E a, b \in LoginCalls :
          /\ LoginReturned(a) /\ ~login[a].password_ok
          /\ login[a].attempts = LoginMaxAttempts /\ login[a].status = 401
          /\ LoginReturned(b) /\ ~login[b].password_ok
          /\ login[b].attempts = LoginMaxAttempts + 1 /\ login[b].status = 429

\* C15: Lockout is absorbing.  A login whose post-increment value exceeds
\* the threshold returns 429 in the step that learns the value: no user
\* lookup, no audit row, no token, and the counter key stays as it is;
\* this holds for a correct password too.
LockoutAbsorbing ==
    [][\A c \in LoginCalls :
          (LoginStep(c) /\ login'[c].attempts > LoginMaxAttempts)
          => /\ login[c].pc \in {"incr", "expire"}
             /\ LoginReturned(c)'
             /\ login'[c].status = 429
             /\ login'[c].token = {}
             /\ login'[c].reason = ""
             /\ audit_log' = audit_log
             /\ login_counter' # {}
             /\ CounterValue' >= login'[c].attempts]_vars

\* C15 witness: a correct password of a demo user was answered 429 and the
\* counter is still there, above the threshold.
LockoutAbsorbingWitness ==
    /\ login_username \in DemoUsers
    /\ CounterValue > LoginMaxAttempts
    /\ \E c \in LoginCalls :
          /\ LoginReturned(c) /\ login[c].password_ok
          /\ login[c].status = 429 /\ login[c].token = {}

\* C16: The counter is deleted only on the success path.  The key goes away
\* only when its TTL runs out or in the delete step of a login with a demo
\* user's correct password below the lockout; that step leaves no key; the
\* steps of a login that ends with user_not_found or invalid_password after
\* its INCR leave the key as it is; the value of an existing key never drops.
CounterDeletedOnlyOnSuccess ==
    [][/\ (login_counter # {} /\ login_counter' = {})
          => \/ CounterTtl = {1} /\ login' = login
             \/ \E c \in LoginCalls :
                   /\ login[c].pc = "delete" /\ login'[c].pc = "audit_success"
                   /\ login[c].password_ok
                   /\ login_username \in DemoUsers
                   /\ ~LockedOut(login[c].attempts)
       /\ \A c \in LoginCalls :
             (login[c].pc = "delete" /\ login'[c].pc = "audit_success")
             => login_counter' = {}
       /\ \A c \in LoginCalls :
             (login[c].pc = "audit_fail" /\ LoginStep(c))
             => login_counter' = login_counter
       /\ \A c \in LoginCalls :
             (LoginReturned(c)' /\ LoginStep(c) /\ login'[c].status = 401)
             => login_counter' = login_counter
       /\ (login_counter # {} /\ login_counter' # {})
          => CounterValue' >= CounterValue]_vars

\* C16 witness: after a refused login left the counter at its value, a
\* successful login has left no counter.
CounterDeletedOnlyOnSuccessWitness ==
    /\ login_counter = {}
    /\ \E a, b \in LoginCalls :
          /\ LoginReturned(a) /\ login[a].status = 401 /\ login[a].attempts = 1
          /\ LoginReturned(b) /\ login[b].status = 200 /\ login[b].attempts = 2

\* C17: Lockout always ends.  An existing counter key carries a TTL of at
\* most the lockout window, or the login that created it is about to set it.
LockoutAlwaysEnds ==
    login_counter # {}
    => \/ \E t \in CounterTtl : t <= LockoutWindow
       \/ \E c \in LoginCalls : login[c].pc = "expire"

\* C18: Capability reconstruction.  For every accepted token with a role of
\* the mapping, the capability set of the principal is the mapping's set for
\* that role, whatever permissions list the payload carries.
CapabilityReconstruction ==
    (rbac.pc = "verified" /\ rbac.principal.role \in KnownRoles)
    => rbac.principal.permissions = RolePermissions(rbac.principal.role)

\* C19: Unknown roles collapse to observer.  For every accepted token whose
\* role is not a role of the mapping, the principal has role observer and
\* observer's capabilities.
UnknownRoleCollapses ==
    (rbac.pc = "verified" /\ \E r \in rbac.token.role : r \notin KnownRoles)
    => /\ rbac.principal.role = "observer"
       /\ rbac.principal.permissions = {"task.view", "agent.view", "metrics.view"}

\* C20: Permission enforcement.  The wrapped operation is executed exactly
\* when every required capability is in the principal's capability set;
\* otherwise the wrapper answers 403, names exactly the required capabilities
\* the principal lacks, and the operation is not executed.
PermissionEnforcement ==
    rbac.pc = "done"
    => LET has == rbac.principal.permissions IN
       /\ rbac.executed <=> (\A p \in rbac.required : p \in has)
       /\ rbac.executed => rbac.status = 200 /\ rbac.missing = {}
       /\ ~rbac.executed
          => /\ rbac.status = 403
             /\ rbac.missing = {p \in rbac.required : p \notin has}
             /\ rbac.missing # {}

\* C20 witness: a principal holding one of two required capabilities was
\* refused with the other one named.
PermissionEnforcementWitness ==
    /\ rbac.pc = "done"
    /\ rbac.status = 403
    /\ ~rbac.executed
    /\ rbac.required = {"task.view", "system.admin"}
    /\ rbac.missing = {"system.admin"}
    /\ rbac.principal.role = "observer"

\* Calls of one handler for one reservation id that returned 200.
Succeeded(op, i) ==
    {c \in HttpCalls :
        /\ http[c].op = op /\ http[c].reservation_id = i
        /\ http[c].pc = "returned" /\ http[c].status = 200}

\* Calls of resolve_dlq_message for one message id, and calls of
\* reset_all_circuit_breakers, that returned 200.
Resolved(m) ==
    {c \in HttpCalls :
        /\ http[c].op = "resolve_dlq_message" /\ http[c].message_id = m
        /\ http[c].pc = "returned" /\ http[c].status = 200}

BreakersReset ==
    {c \in HttpCalls :
        /\ http[c].op = "reset_all_circuit_breakers"
        /\ http[c].pc = "returned" /\ http[c].status = 200}

\* C21: Audit completeness.  Every budget.commit, budget.release, dlq.resolve
\* and breakers.reset_all that has returned 200 has exactly one matching
\* audit_log row: per reservation id and per message id, as many rows of the
\* action as calls that returned 200, and as many breakers.reset_all rows as
\* reset_all calls that returned 200.
AuditCompleteness ==
    /\ \A i \in ReservationIds :
          /\ CopiesIn(AuditRow("budget.commit", i), audit_log)
                = Cardinality(Succeeded("budget_commit", i))
          /\ CopiesIn(AuditRow("budget.release", i), audit_log)
                = Cardinality(Succeeded("budget_release", i))
    /\ \A m \in MessageIds :
          CopiesIn(AuditRow("dlq.resolve", m), audit_log)
            = Cardinality(Resolved(m))
    /\ CopiesIn(AuditRow("breakers.reset_all", "all"), audit_log)
         = Cardinality(BreakersReset)

\* The core NATS publishes that publish call c attempted.
DlqAttempts(c) == {k \in DOMAIN nc_sent : nc_sent[k].by = c}

\* C22: SafePublisher failure routing.  A publish call whose durable publish
\* got its ack returns and has attempted nothing on the core connection.  A
\* call whose durable publish timed out or failed attempts nothing before
\* its DLQ publish and, once it has raised, has attempted exactly one core
\* publish: to dlq.{subject}, with the caller's data and the caller's headers
\* extended by original_subject, error and dlq_timestamp; it raises the
\* original error whether that DLQ publish was delivered or not.
SafePublisherRouting ==
    \A c \in PublishCalls :
        LET f == publish[c] IN
        /\ f.pc \in {"idle", "js_publish", "nc_publish", "returned"}
              => DlqAttempts(c) = {}
        /\ f.pc = "returned" <=> f.error = "ack"
        /\ f.pc = "raised" =>
              /\ f.error \in {"timeout", "nats: no response from stream"}
              /\ f.raised = f.error
              /\ Cardinality(DlqAttempts(c)) = 1
              /\ \A k \in DlqAttempts(c) :
                    LET m == nc_sent[k].message
                        given == IF f.headers = {} THEN {}
                                 ELSE CHOOSE d \in f.headers : TRUE
                        added == {"original_subject", "error", "dlq_timestamp"}
                    IN  /\ m.subject = "dlq." \o f.subject
                        /\ m.data = "data"
                        /\ <<"original_subject", f.subject>> \in m.headers
                        /\ <<"error", f.error>> \in m.headers
                        /\ \E t \in {"utcnow"} : <<"dlq_timestamp", t>> \in m.headers
                        /\ {p \in m.headers : p[1] \notin added}
                              = {p \in given : p[1] \notin added}
                        /\ \A p, q \in m.headers : p[1] = q[1] => p = q

\* C22 witness: a durable publish timed out, the one DLQ publish failed too,
\* and the call raised the timeout; the caller's headers already had an error
\* entry.
SafePublisherRoutingWitness ==
    \E c \in PublishCalls :
        /\ publish[c].pc = "raised" /\ publish[c].raised = "timeout"
        /\ <<"error", "stale">> \in UNION publish[c].headers
        /\ \E k \in DlqAttempts(c) : ~nc_sent[k].delivered

\* The columns of a dlq_messages row that the INSERT gave.
Columns(row) ==
    [original_subject |-> row.original_subject, data |-> row.data,
     headers |-> row.headers, error_count |-> row.error_count]

\* C23: Persist before ack.  Every message of the DLQ stream that the worker
\* has acknowledged has a dlq_messages row with its original subject, payload
\* and headers, whose error_count is one of its delivery counts.
PersistBeforeAck ==
    \A k \in DOMAIN dlq_stream :
        dlq_stream[k].acked =>
            \E n \in 1..dlq_stream[k].num_delivered :
                \E row \in BagToSet(dlq_messages) :
                    Columns(row) = DLQRecord(Msg(k, dlq_stream[k].message, n))

\* The file at position k is recorded in schema_migrations under another
\* checksum.
RecordedDifferently(k) ==
    \E r \in schema_migrations :
        r.version = sql_files[k].version /\ r.checksum # sql_files[k].checksum

\* C24: Checksum integrity.  When the file the runner stands at is recorded
\* in schema_migrations with a different checksum, the runner never moves to
\* a later file, no step inserts a schema_migrations row, and the run ends
\* with exit status 1, whether run_migrations returns it, calls sys.exit(1)
\* or is left by an exception (a file that cannot be read, a failing SELECT
\* or conn.close()); no file the runner has passed is recorded differently.
ChecksumIntegrity ==
    [][LET k == migrate.index IN
       /\ \A j \in 1..(k - 1) : ~RecordedDifferently(j)
       /\ (k \in DOMAIN sql_files /\ RecordedDifferently(k)) =>
             /\ migrate'.index = k
             /\ schema_migrations' = schema_migrations
             /\ migrate'.pc \in {"done", "raised"} =>
                    migrate'.exit_code = {1}]_vars

\* C24 witness: the run applied a file, then stopped with exit code 1 at a
\* file recorded with another checksum, with a file left after it.
ChecksumIntegrityWitness ==
    /\ migrate.pc = "done" /\ migrate.exit_code = {1}
    /\ migrate.success_count > migrate.skipped_count
    /\ migrate.index \in DOMAIN sql_files
    /\ migrate.index < Len(sql_files)
    /\ \E r \in migrate.applied_dict :
          /\ r.version = sql_files[migrate.index].version
          /\ r.checksum # sql_files[migrate.index].checksum

\* C25: Release is idempotent (controller).  The UPDATE of a
\* release_reservation whose request id names no Held reservation (never
\* created, already committed or already released) leaves the budget_limits
\* row as it was.
ReleaseIdempotent ==
    [][\A c \in CtlCalls :
          (/\ ctl[c].pc = "release_update"
           /\ ctl'[c].pc = "release_insert"
           /\ ~Held(ctl[c].request_id))
          => budget_limits' = budget_limits]_vars

\* C26: Commit of a missing reservation.  When budget_commit reads its
\* reservation key and the key does not exist, the call returns 404 in that
\* step and the used counter, the reservation keys, the reservations set and
\* audit_log stay as they are; a call that has returned takes no further step.
CommitOfMissingReservation ==
    [][\A c \in HttpCalls :
          /\ (/\ http[c].op = "budget_commit"
              /\ http[c].pc = "get_reservation"
              /\ kv_reservation[http[c].reservation_id] = {}
              /\ http'[c] # http[c])
             => /\ http'[c].pc = "returned" /\ http'[c].status = 404
                /\ UNCHANGED <<kv_budget, kv_reservation, kv_reservations_set,
                               audit_log>>
          /\ http[c].pc = "returned" => http'[c] = http[c]]_vars

\* C26 witness: a commit of an expired reservation, whose set member is still
\* there, returned 404 and the used counter is still absent.
CommitOfMissingReservationWitness ==
    \E c \in HttpCalls :
        /\ http[c].op = "budget_commit"
        /\ http[c].pc = "returned" /\ http[c].status = 404
        /\ http[c].reservation_id \in kv_reservations_set
        /\ kv_budget = {}

\* C27: Commit overflow (HTTP).  The INCRBY step of a budget_commit whose
\* actual tokens would take the used counter over total_limit ends the call
\* with an error and leaves the counter, the reservation key and the
\* reservations set as they are; the used counter never exceeds total_limit.
CommitOverflow ==
    [][/\ \A c \in HttpCalls :
             (/\ http[c].op = "budget_commit"
              /\ http[c].pc = "incrby"
              /\ http'[c] # http[c]
              /\ UsedCounter + http[c].amount > SelectedLimit)
             => /\ UNCHANGED <<kv_budget, kv_reservation, kv_reservations_set>>
                /\ http'[c].pc = "returned" /\ http'[c].status # 200
       /\ UsedCounter' <= SelectedLimit']_vars

\* What a returned budget_state call reports.
Reported(c) ==
    [total |-> http[c].total_limit, used |-> http[c].used,
     reserved |-> http[c].reserved, available |-> http[c].available]

\* C28: State report.  With the handlers called one at a time, the latest
\* call being a returned budget_state none of whose counted reservations has
\* expired since: it reports the stored limit (100000 without a row), the
\* used counter, reserved = the sum of the tokens of the reservation keys
\* that exist, and available = total - used - reserved.  In particular,
\* after an approved request and a commit of m tokens of its reservation as
\* the only earlier calls, it reports used m, reserved 0, available total - m.
StateReportCorrect ==
    \A c \in HttpCalls :
        (/\ http[c].op = "budget_state" /\ http[c].pc = "returned"
         /\ c = http_started
         /\ \A i \in http[c].counted : kv_reservation[i] # {})
        => /\ http[c].status = 200
           /\ Reported(c).total = SelectedLimit
           /\ Reported(c).used = UsedCounter
           /\ Reported(c).reserved = LiveReserved
           /\ Reported(c).available
                 = Reported(c).total - Reported(c).used - Reported(c).reserved
           /\ (/\ c = 3
               /\ http[1].op = "budget_request" /\ http[1].status = 200
               /\ http[2].op = "budget_commit" /\ http[2].status = 200
               /\ http[2].reservation_id = 1)
              => Reported(c) = [total |-> SelectedLimit, used |-> http[2].amount,
                                reserved |-> 0,
                                available |-> SelectedLimit - http[2].amount]

\* C29: Expiry reconciliation (controller).  A Held reservation eventually
\* stops being Held also when its client never commits or releases it: some
\* release of its amount is applied to the ledger.
ExpiryReconciliation ==
    \A rid \in RequestIds : Held(rid) ~> ~Held(rid)

\* Call c1 has applied its reserve UPDATE and has not returned yet.
HasReserved(c1) ==
    /\ ctl[c1].op = "request_tokens" /\ ctl[c1].was_new
    /\ \/ ctl[c1].pc \in {"reserve_insert", "reserve_invalidate"}
       \/ /\ ctl[c1].pc = "setex_result"
          /\ ctl[c1].decision = {Approved(ctl[c1].request_id, ctl[c1].amount)}

\* Call c2 takes the UPDATE of _reserve_tokens while c1, a request with
\* another request id, is still running with its amount reserved.
SecondUpdate(c1, c2) ==
    /\ c1 # c2
    /\ ctl[c1].request_id # ctl[c2].request_id
    /\ HasReserved(c1)
    /\ ctl[c2].pc = "reserve_update" /\ ctl'[c2].pc # "reserve_update"

\* What the budget_limits row leaves available.
RowAvailable ==
    LET r == CHOOSE x \in budget_limits : TRUE
    IN  r.total_limit - r.current_usage - r.reserved

\* C30 as stated: when the amounts of two concurrent requests sum exactly to
\* what was available (the second asks for exactly what the first left), the
\* second receives reservation_failed.
TieBreakExactSum ==
    [][\A c1, c2 \in CtlCalls :
          (SecondUpdate(c1, c2) /\ RowAvailable = ctl[c2].amount)
          => ctl'[c2].decision = {ReservationFailed(ctl[c2].request_id)}]_vars

\* C30 amended: both calls won their SETNX, and the second UPDATE reserves
\* when its amount is at most what the first left available, exact fit
\* included, and yields reservation_failed, the row untouched, when it is more.
TieBreakSerialised ==
    [][\A c1, c2 \in CtlCalls :
          SecondUpdate(c1, c2) =>
             /\ ctl[c2].was_new
             /\ ctl[c2].amount <= RowAvailable =>
                   /\ ctl'[c2].pc = "reserve_insert"
                   /\ RowAvailable' = RowAvailable - ctl[c2].amount
             /\ ctl[c2].amount > RowAvailable =>
                   /\ ctl'[c2].decision = {ReservationFailed(ctl[c2].request_id)}
                   /\ budget_limits' = budget_limits]_vars

\* C30 witness: two requests with different ids, both past the availability
\* check; the first has reserved and the second was refused by the UPDATE.
TieBreakSerialisedWitness ==
    \E c1, c2 \in CtlCalls :
        /\ ctl[c1].request_id # ctl[c2].request_id
        /\ HasReserved(c1)
        /\ ctl[c2].op = "request_tokens" /\ ctl[c2].was_new
        /\ ctl[c2].pc = "setex_result"
        /\ ctl[c2].decision = {ReservationFailed(ctl[c2].request_id)}
        /\ RowAvailable < ctl[c2].amount

\* Sum of the amounts of the budget_transactions rows of one type.
RECURSIVE SumAmounts(_)
SumAmounts(rows) ==
    IF rows = {} THEN 0
    ELSE LET t == CHOOSE x \in rows : TRUE
         IN  t.amount * CopiesIn(t, budget_transactions) + SumAmounts(rows \ {t})

LoggedAmount(type) ==
    SumAmounts({t \in BagToSet(budget_transactions) : t.type = type})

\* C31: Safe retry after an exception.  When a request_tokens call that won
\* the envelope has raised and no other call holds the envelope of its
\* request id, a request_tokens call with that request id wins the SETNX and
\* is processed; and when such a call, a retry with the same amount, returns,
\* the request id has at most one reserve row and reserved is at most the
\* requested amount.
SafeRetryAfterException ==
    [][\A a, b \in RequestCalls :
          (/\ a # b
           /\ ctl[a].request_id = ctl[b].request_id
           /\ ctl[a].was_new /\ ctl[a].pc = "raised"
           /\ \A c \in CtlCalls \ {a, b} : ctl[c].op = "idle")
          => /\ (ctl[b].pc = "setnx" /\ ctl'[b].pc \notin {"setnx", "cancelled"})
                => ctl'[b].pc = "get_cache"
             /\ (ctl[b].was_new /\ Returned(b)' /\ ctl[b].amount = ctl[a].amount)
                => /\ TxRowCount("reserve", ctl[b].request_id)' <= 1
                   /\ \A r \in budget_limits' : r.reserved <= ctl[b].amount]_vars

\* The step in which budget_request call c leaves its reads and decides.
Decides(c) ==
    /\ http[c].op = "budget_request"
    /\ http[c].pc \in {"smembers", "get_reservation"}
    /\ http'[c].pc \in {"setex", "returned"}

\* C32: Insufficient budget has no side effects.  With the handlers called
\* one at a time, a budget_request is approved only if limit - used - reserved
\* of the keys at the deciding step is at least the estimated tokens; a
\* request that is not is answered 409 with the available amount it computed
\* (less than the request, never more than the keys leave), has created no
\* reservation key and no set member, leaves used and the reservations as
\* they were, and takes no further step.
InsufficientNoSideEffects ==
    [][\A c \in HttpCalls :
          /\ (Decides(c) /\ http'[c].pc = "setex")
             => SelectedLimit - UsedCounter - LiveReserved >= http[c].amount
          /\ (Decides(c) /\ http'[c].pc = "returned")
             => /\ http'[c].status = 409
                /\ http'[c].amount = http[c].amount
                /\ http'[c].available < http[c].amount
                /\ http'[c].available <= SelectedLimit - UsedCounter - LiveReserved
                /\ kv_reservation[http[c].reservation_id] = {}
                /\ http[c].reservation_id \notin kv_reservations_set
                /\ UNCHANGED <<kv_budget, kv_reservation, kv_reservations_set>>
          /\ (http[c].op = "budget_request" /\ http[c].pc = "returned"
              /\ http[c].status = 409)
             => /\ http'[c] = http[c]
                /\ kv_reservation'[http[c].reservation_id] = {}
                /\ http[c].reservation_id \notin kv_reservations_set']_vars

\* The fields reset_all leaves on a breaker.
FieldsCleared(p) ==
    /\ p.state = "closed"
    /\ p.failure_count = 0 /\ p.success_count = 0 /\ p.half_open_calls = 0
    /\ p.last_failure_time = {} /\ p.opened_at = {}

\* C33: reset_all.  The step of reset_all leaves every breaker that is
\* registered when it runs Closed with failure_count, success_count and
\* half_open_calls 0 and last_failure_time and opened_at cleared, and each of
\* them stays so until a call completes on it, calls admitted before or
\* after the reset still running or not.  The reset is done under the
\* breaker's lock: no lock is held between two steps, so reset_all finds
\* every lock free, and its step is no step of a call's bookkeeping: it
\* changes no count of calls and no running call, and touches neither the
\* registry nor a breaker that is not registered.
ResetAllClears ==
    /\ [](\A b \in BreakerObjects : ~breakers[b].locked)
    /\ [][/\ \A b \in BreakerObjects :
                (breakers'[b].was # "none" => FieldsCleared(breakers'[b]))
          /\ (\E b \in BreakerObjects :
                 /\ breakers'[b].was # "none"
                 /\ breakers'[b].was # breakers[b].was)
             => /\ registry' = registry
                /\ \A b \in Registered :
                      /\ breakers'[b].was = breakers[b].state
                      /\ breakers'[b].in_flight = breakers[b].in_flight
                      /\ breakers'[b].total_calls = breakers[b].total_calls
                /\ \A b \in BreakerObjects \ Registered :
                      breakers'[b] = breakers[b]]_vars

\* C33 witness: two breakers are registered; reset_all found one Open and the
\* other HalfOpen with a probe running; both are Closed and cleared, the
\* probe still runs.
ResetAllClearsWitness ==
    \E b, d \in Registered :
        /\ breakers[b].was = "open" /\ FieldsCleared(breakers[b])
        /\ breakers[d].was = "half_open" /\ FieldsCleared(breakers[d])
        /\ breakers[d].in_flight > 0

\* The capability the route table gives each protected route.
RouteCapability ==
    [budget_request |-> "budget.view", budget_commit |-> "budget.view",
     budget_release |-> "budget.view", budget_state |-> "budget.view",
     get_dlq_messages |-> "dlq.read", get_dlq_message |-> "dlq.read",
     resolve_dlq_message |-> "system.admin",
     reset_all_circuit_breakers |-> "system.admin"]

\* C34: Admin holds all capabilities.  The decorator of every protected
\* route asks for the capability the route table gives that route, and a
\* principal that verify_token returns for a token generate_token made for
\* the role admin holds that capability: it is a member of ROLE_PERMISSIONS
\* of admin.
AdminHoldsAllCapabilities ==
    (rbac.pc = "verified" /\ rbac.minted /\ rbac.principal.role = "admin")
    => \A route \in ProtectedRoutes :
          /\ PermissionAttr(RouteDecorator[route]) = {RouteCapability[route]}
          /\ RouteCapability[route] \in RolePermissions("admin")
          /\ RouteCapability[route] \in rbac.principal.permissions

\* A start() call whose coroutine is inside the while loop.
InLoop(c) == dlq_worker[c].pc \in {"fetch", "insert", "alert", "ack", "sleep"}

\* The sequence numbers a step delivers.
Fetched ==
    {k \in DOMAIN dlq_stream :
        dlq_stream'[k].num_delivered > dlq_stream[k].num_delivered}

\* The payload of a stored message is no UTF-8: process_dlq_message raises
\* on it before its try block.
Undecodable(stored) == Decoded[stored.message.data] = {}

\* C35: DLQ worker lifecycle.  While running is true no step ends the loop
\* of a start() call: a fetch that raises (timeout or any other error), an
\* error in processing (process_dlq_message raising on the first message of
\* a delivered batch or on the message that follows an acked one, with no
\* row inserted for it; an INSERT that fails is swallowed and the ack
\* follows) and an ack that raises lead to the sleep, and the sleep to the
\* next fetch.  While running is false no call begins another fetch: the
\* step that ends the fetch cycle in progress ends start(); and, every fetch,
\* insert, ack and sleep returning, the loop (one start() at a time is
\* inside it in these runs) returns once running is false, unless a further
\* start() has set running again.
DlqWorkerLifecycle ==
    /\ [][\A c \in StartCalls :
            /\ (running /\ InLoop(c)) => dlq_worker'[c].pc # "returned"
            /\ (running /\ dlq_worker[c].pc = "sleep" /\ dlq_worker'[c].pc # "sleep")
               => dlq_worker'[c].pc = "fetch"
            /\ (dlq_worker[c].pc = "fetch"
                /\ dlq_worker'[c].pc \notin {"fetch", "insert"})
               => dlq_worker'[c].pc = "sleep"
            /\ (dlq_worker[c].pc = "fetch" /\ dlq_worker'[c].pc # "fetch"
                /\ Fetched # {})
               => LET k == CHOOSE x \in Fetched : \A y \in Fetched : x <= y IN
                  IF Undecodable(dlq_stream[k])
                  THEN /\ dlq_worker'[c] = [pc |-> "sleep", batch |-> <<>>]
                       /\ dlq_messages' = dlq_messages
                       /\ \A j \in Fetched : ~dlq_stream'[j].acked
                  ELSE dlq_worker'[c].pc = "insert"
            /\ (dlq_worker[c].pc = "insert" /\ dlq_worker'[c].pc # "insert")
               => dlq_worker'[c].pc = "ack"
            /\ (dlq_worker[c].pc = "ack" /\ dlq_worker'[c].pc # "ack"
                /\ ~dlq_stream'[Head(dlq_worker[c].batch).seq].acked)
               => dlq_worker'[c].pc = "sleep"
            /\ (dlq_worker[c].pc = "ack" /\ dlq_worker'[c].pc # "ack"
                /\ dlq_stream'[Head(dlq_worker[c].batch).seq].acked
                /\ Len(dlq_worker[c].batch) > 1
                /\ Undecodable(dlq_stream[dlq_worker[c].batch[2].seq]))
               => /\ dlq_worker'[c] = [pc |-> "sleep", batch |-> <<>>]
                  /\ dlq_messages' = dlq_messages
            /\ (~running /\ dlq_worker[c].pc # "fetch")
               => dlq_worker'[c].pc # "fetch"]_vars
    /\ (~running /\ \E c \in StartCalls : InLoop(c))
          ~> (running \/ \A c \in StartCalls : ~InLoop(c))

\* stop() was called and a start() has returned from its loop, after
\* process_dlq_message had raised on a message that came before another: the
\* loop went on, the message was delivered again once its ack_wait was over,
\* and the message behind it, delivered once, has no row and no ack.
DlqWorkerLifecycleWitness ==
    /\ ~running
    /\ dlq_worker[1].pc = "returned"
    /\ Len(dlq_stream) >= 2
    /\ Undecodable(dlq_stream[1]) /\ dlq_stream[1].num_delivered >= 2
    /\ ~Undecodable(dlq_stream[2]) /\ dlq_stream[2].num_delivered = 1
    /\ ~dlq_stream[2].acked
    /\ dlq_messages = EmptyBag

\* C36: No permanent half-open.  The breaker is never HalfOpen with no probe
\* in flight and every further call rejected (half_open_calls at its limit),
\* however the admitted probes ended: by returning, by raising the expected
\* exception, by raising another exception or by being cancelled.
NoPermanentHalfOpen ==
    ~(/\ state = "half_open"
      /\ InFlightTotal = 0
      /\ half_open_calls >= HalfOpenMaxCalls)

\* C37: Stale completions do not drive the breaker.  A success reported by a
\* call admitted while Closed does not move a HalfOpen breaker to Closed, and
\* a failure reported while the breaker is Open (by a call admitted before it
\* opened) changes neither failure_count nor last_failure_time.
StaleCompletionsIgnored ==
    [][/\ (/\ total_successes' = total_successes + 1
           /\ last_report'.admitted = "closed"
           /\ state = "half_open")
          => state' # "closed"
       /\ (/\ total_failures' = total_failures + 1
           /\ state = "open")
          => /\ failure_count' = failure_count
             /\ last_failure_time' = last_failure_time]_vars

\* No controller operation is in progress: every call has returned, raised
\* or been cancelled, or was never issued.
CtlQuiescent ==
    \A c \in CtlCalls : ctl[c].pc \in {"idle", "returned", "raised", "cancelled"}

\* C38: Ledger and transaction log agree.  Whenever no controller operation
\* is in progress (operations may have failed or been cancelled at any
\* statement), reserved on the budget_limits row equals the sum of the
\* amounts of the reserve rows minus the sums of the amounts of the commit and
\* release rows of budget_transactions.
LedgerAgreesWithLog ==
    CtlQuiescent
    => \A r \in budget_limits :
        r.reserved = LoggedAmount("reserve") - LoggedAmount("commit")
                         - LoggedAmount("release")

\* Call c is the request_tokens call issued after every other call had ended.
RunsAlone(c) == ctl_started = MaxCtlCalls + 1 /\ c = 1

\* total_limit - current_usage - reserved of the ledger row; a (tenant,
\* project) without a row gets one with the default limit.
LedgerAvailable ==
    IF budget_limits = {} THEN TotalLimit
    ELSE LET r == CHOOSE x \in budget_limits : TRUE
         IN  r.total_limit - r.current_usage - r.reserved

\* C39: The state cache never causes a wrong decision.  A request_tokens call
\* that won its envelope and runs with no other budget operation in progress
\* is refused only if the ledger's total_limit - current_usage - reserved is
\* below the estimated tokens at that time, and reserves only if it is at
\* least the estimated tokens, whatever earlier interleavings have left in
\* the cache entry budget:state.
StateCacheNeverMisleads ==
    [][\A c \in CtlCalls :
          (/\ RunsAlone(c) /\ ctl[c].was_new
           /\ ctl[c].pc \in {"get_cache", "cache_setex", "reserve_update"})
          => /\ ctl'[c].pc = "setex_result"
                => LedgerAvailable < ctl[c].amount
             /\ ctl'[c].pc = "reserve_insert"
                => LedgerAvailable >= ctl[c].amount]_vars

\* The messages of the DLQ stream that were delivered to the worker.
DeliveredMessages == {k \in DOMAIN dlq_stream : dlq_stream[k].num_delivered >= 1}

\* C40: At most one DLQRecord per dead-lettered message.  The table
\* dlq_messages never holds more rows than messages were delivered to the
\* worker, also when an ack has failed and the message was delivered again
\* (with every message inserting at most one row, the rows cannot outnumber
\* the delivered messages).
AtMostOneRecordPerMessage ==
    BagCardinality(dlq_messages) <= Cardinality(DeliveredMessages)

====
